---- MODULE Spec2Model ----
(***************************************************************************)
(* A model of helm-preview's CRD analysis: the `diff` command (cli.py),    *)
(* the CRD pipeline (crd/pipeline.py) and the pure functions it calls      *)
(* (crd/classifier.py, crd/policy.py, crd/stored_versions.py, ...).        *)
(*                                                                         *)
(* Strings that the code inspects with regular expressions (the dot-paths  *)
(* of FieldChanges) are sequences of lexemes: "." "[" "]", digits, and     *)
(* words.  A lexeme is one letter of the alphabet the regexes run over:    *)
(* \d matches a digit lexeme, \w a digit or word lexeme, a literal such as *)
(* `required` the lexeme "required".  The path `a.requiredFields[10]` is   *)
(* <<"a", ".", "required", "Fields", "[", "1", "0", "]">>.                 *)
(***************************************************************************)
EXTENDS Naturals, Sequences, FiniteSets, TLC

VARIABLES
    args,       \* harness of the pure functions: the arguments of the call
    result,     \* harness of the pure functions: what the call returned
    fpc         \* harness of the pure functions: "input" | "returned"

fnVars == <<args, result, fpc>>

\* ------------------------------------------------------------------------
\* Generic helpers
\* ------------------------------------------------------------------------

\* All sequences over S of length at most n.
SeqsUpTo(S, n) == UNION {[1..k -> S] : k \in 0..n}

Range(s) == {s[i] : i \in DOMAIN s}

RECURSIVE Concat(_)
Concat(ss) == IF ss = <<>> THEN <<>> ELSE Head(ss) \o Concat(Tail(ss))

\* ------------------------------------------------------------------------
\* Lexemes and the subset of Python's `re` the classifier uses
\* ------------------------------------------------------------------------

Digits == {"0", "1", "2"}
Punct == {".", "[", "]", "/", "-"}

IsDigit(l) == l \in Digits
\* \w: letters, digits and underscore; every lexeme that is not punctuation.
IsWord(l) == l \notin Punct

\* Regex atoms.
Lit(v) == [t |-> "lit", vs |-> {v}]          \* a literal
Alt(vs) == [t |-> "lit", vs |-> vs]          \* (a|b)
DigitsPlus == [t |-> "digits", vs |-> {}]    \* \d+
WordPlus == [t |-> "word", vs |-> {}]        \* \w+
AnyStar == [t |-> "any", vs |-> {}]          \* .*

\* A pattern: its atoms, and whether it ends with `$`.
Re(atoms, dollar) == [atoms |-> atoms, dollar |-> dollar]

\* Does re[k..] match s from position i on (to the end of s when toEnd)?
RECURSIVE MatchAt(_, _, _, _, _)
MatchAt(re, s, i, k, toEnd) ==
    IF k > Len(re) THEN (~toEnd \/ i = Len(s) + 1)
    ELSE LET a == re[k] IN
         CASE a.t = "lit" ->
                  /\ i <= Len(s)
                  /\ s[i] \in a.vs
                  /\ MatchAt(re, s, i + 1, k + 1, toEnd)
           [] a.t = "digits" ->
                  \E j \in (i + 1)..(Len(s) + 1) :
                      /\ \A m \in i..(j - 1) : IsDigit(s[m])
                      /\ MatchAt(re, s, j, k + 1, toEnd)
           [] a.t = "word" ->
                  \E j \in (i + 1)..(Len(s) + 1) :
                      /\ \A m \in i..(j - 1) : IsWord(s[m])
                      /\ MatchAt(re, s, j, k + 1, toEnd)
           [] a.t = "any" ->
                  \E j \in i..(Len(s) + 1) : MatchAt(re, s, j, k + 1, toEnd)

\* re.match(pattern, s): the pattern matches at the start of s.
re_match(re, s) == MatchAt(re.atoms, s, 1, 1, re.dollar)

\* re.search(pattern, s): the pattern matches somewhere in s.
re_search(re, s) == \E i \in 1..(Len(s) + 1) : MatchAt(re.atoms, s, i, 1, re.dollar)

\* ------------------------------------------------------------------------
\* Paths
\* ------------------------------------------------------------------------

\* Segments joined with "." into a path.
RECURSIVE Dot(_)
Dot(segs) ==
    IF segs = <<>> THEN <<>>
    ELSE IF Len(segs) = 1 THEN Head(segs)
    ELSE Head(segs) \o <<".">> \o Dot(Tail(segs))

W(w) == <<w>>                                \* a one-word segment
Ix(w, d) == <<w, "[", d, "]">>               \* w[d]

\* ------------------------------------------------------------------------
\* crd/classifier.py
\* ------------------------------------------------------------------------

SAFE == "SAFE"
WARNING == "WARNING"
DANGER == "DANGER"
RiskLevel == {SAFE, WARNING, DANGER}

ChangeTypes == {"value_changed", "type_changed", "item_added", "item_removed"}

FieldChange(path, change_type) == [path |-> path, change_type |-> change_type]

_annotation(level, rule, path) == [level |-> level, rule |-> rule, path |-> path]

\* spec\.versions\[\d+\]
ReVersionEntry == <<Lit("spec"), Lit("."), Lit("versions"), Lit("["), DigitsPlus, Lit("]")>>
\* spec\.versions\[\d+\]\.schema\..*
ReSchemaAny == ReVersionEntry \o <<Lit("."), Lit("schema"), Lit("."), AnyStar>>
\* spec\.versions\[\d+\]\.schema\..*\.properties\.\w+
ReSchemaProperty == ReSchemaAny \o <<Lit("."), Lit("properties"), Lit("."), WordPlus>>

\* ^metadata\.(annotations|labels)\.
ReMetadata == Re(<<Lit("metadata"), Lit("."), Alt({"annotations", "labels"}), Lit(".")>>, FALSE)
\* spec\.versions\[\d+\]\.additionalPrinterColumns
RePrinterColumns == Re(ReVersionEntry \o <<Lit("."), Lit("additionalPrinterColumns")>>, FALSE)
\* ^spec\.versions\[\d+\]$
ReVersion == Re(ReVersionEntry, TRUE)
\* spec\.versions\[\d+\]\.schema\.openAPIV3Schema\.properties\.\w+\.properties\.\w+
ReNestedProperty ==
    Re(ReVersionEntry \o <<Lit("."), Lit("schema"), Lit("."), Lit("openAPIV3Schema"),
                           Lit("."), Lit("properties"), Lit("."), WordPlus,
                           Lit("."), Lit("properties"), Lit("."), WordPlus>>, FALSE)
\* \.required
ReDotRequired == Re(<<Lit("."), Lit("required")>>, FALSE)
\* spec\.versions\[\d+\]\.schema\..*\.required
ReRequired == Re(ReSchemaAny \o <<Lit("."), Lit("required")>>, FALSE)
\* spec\.versions\[\d+\]\.schema\..*\.properties\.\w+$
RePropertyEnd == Re(ReSchemaProperty, TRUE)
\* spec\.versions\[\d+\]\.schema\..*\.properties\.\w+\.type$
ReType == Re(ReSchemaProperty \o <<Lit("."), Lit("type")>>, TRUE)
\* spec\.versions\[\d+\]\.schema\..*\.properties\.\w+\.default$
ReDefault == Re(ReSchemaProperty \o <<Lit("."), Lit("default")>>, TRUE)
\* spec\.versions\[\d+\]\.schema\..*\.properties\.\w+\.pattern$
RePattern == Re(ReSchemaProperty \o <<Lit("."), Lit("pattern")>>, TRUE)
\* spec\.versions\[\d+\]\.schema\..*\.properties\.\w+\.(minimum|maximum)$
ReRange == Re(ReSchemaProperty \o <<Lit("."), Alt({"minimum", "maximum"})>>, TRUE)
\* spec\.versions\[\d+\]\.schema\..*\.properties\.\w+\.enum
ReEnum == Re(ReSchemaProperty \o <<Lit("."), Lit("enum")>>, FALSE)
\* ^spec\.conversion\.webhook\.
ReWebhook == Re(<<Lit("spec"), Lit("."), Lit("conversion"), Lit("."), Lit("webhook"), Lit(".")>>, FALSE)

PathScope == Dot(<<W("spec"), W("scope")>>)
PathConversionStrategy == Dot(<<W("spec"), W("conversion"), W("strategy")>>)

\* A mutant of IsOptionalPropertyAdded: the `.required` exclusion is forgotten.
IsOptionalPropertyAdded_any_path(path, change_type) ==
    /\ re_search(ReNestedProperty, path)
    /\ change_type = "item_added"

\* The condition of the rule crd_optional_property_added.
IsOptionalPropertyAdded(path, change_type) ==
    /\ re_search(ReNestedProperty, path)
    /\ change_type = "item_added"
    /\ ~re_search(ReDotRequired, path)

_classify_single(fc) ==
    LET path == fc.path
        change_type == fc.change_type
    IN  \* --- SAFE patterns ---
        IF re_match(ReMetadata, path)
        THEN _annotation(SAFE, "crd_metadata_change", path)
        ELSE IF re_search(RePrinterColumns, path)
        THEN _annotation(SAFE, "crd_printer_columns", path)
        ELSE IF re_match(ReVersion, path) /\ change_type = "item_added"
        THEN _annotation(SAFE, "crd_version_added", path)
        ELSE IF IsOptionalPropertyAdded(path, change_type)
        THEN _annotation(SAFE, "crd_optional_property_added", path)
        \* --- DANGER patterns ---
        ELSE IF re_match(ReVersion, path) /\ change_type = "item_removed"
        THEN _annotation(DANGER, "crd_version_removed", path)
        ELSE IF re_search(ReRequired, path) /\ change_type = "item_added"
        THEN _annotation(DANGER, "crd_required_field_added", path)
        ELSE IF re_search(RePropertyEnd, path) /\ change_type = "item_removed"
        THEN _annotation(DANGER, "crd_property_removed", path)
        ELSE IF re_search(ReType, path) /\ change_type = "value_changed"
        THEN _annotation(DANGER, "crd_type_changed", path)
        ELSE IF path = PathScope /\ change_type = "value_changed"
        THEN _annotation(DANGER, "crd_scope_changed", path)
        ELSE IF path = PathConversionStrategy /\ change_type = "value_changed"
        THEN _annotation(DANGER, "crd_conversion_strategy_changed", path)
        \* --- WARNING patterns ---
        ELSE IF re_search(ReDefault, path) /\ change_type = "value_changed"
        THEN _annotation(WARNING, "crd_default_changed", path)
        ELSE IF re_search(RePattern, path) /\ change_type = "value_changed"
        THEN _annotation(WARNING, "crd_pattern_changed", path)
        ELSE IF re_search(ReRange, path) /\ change_type = "value_changed"
        THEN _annotation(WARNING, "crd_range_changed", path)
        ELSE IF re_search(ReEnum, path)
        THEN _annotation(WARNING, "crd_enum_changed", path)
        ELSE IF re_match(ReWebhook, path)
        THEN _annotation(WARNING, "crd_webhook_changed", path)
        ELSE IF re_search(ReRequired, path) /\ change_type = "item_removed"
        THEN _annotation(SAFE, "crd_required_field_removed", path)
        ELSE IF re_search(ReRequired, path) /\ change_type = "value_changed"
        THEN _annotation(DANGER, "crd_required_changed", path)
        \* Catch-all for any other CRD change
        ELSE _annotation(WARNING, "crd_unknown_change", path)

\* A mutant of classify_crd_changes: a change whose annotation repeats the
\* previous one's rule is dropped (the result is no longer per-change).
RECURSIVE classify_crd_changes_dedup(_)
classify_crd_changes_dedup(changes) ==
    IF changes = <<>> THEN <<>>
    ELSE LET rest == classify_crd_changes_dedup(SubSeq(changes, 1, Len(changes) - 1))
             annotation == _classify_single(changes[Len(changes)])
         IN  IF rest # <<>> /\ rest[Len(rest)].rule = annotation.rule
             THEN rest
             ELSE Append(rest, annotation)

\* The loop of classify_crd_changes: annotations.append(_classify_single(fc))
\* for fc in changes.
RECURSIVE classify_crd_changes(_)
classify_crd_changes(changes) ==
    IF changes = <<>> THEN <<>>
    ELSE Append(classify_crd_changes(SubSeq(changes, 1, Len(changes) - 1)),
                _classify_single(changes[Len(changes)]))

\* ------------------------------------------------------------------------
\* Resources and CRD bodies
\* ------------------------------------------------------------------------

\* An optional value: <<>> is None (or an absent key), <<v>> is v.
None == <<>>
Some(v) == <<v>>

\* A Resource: kind, name and body.  The body of a CustomResourceDefinition holds
\* what the analysis reads: spec.group, spec.names.plural, spec.names.kind,
\* spec.scope, spec.versions (name, storage, schema.openAPIV3Schema), the status
\* (status.storedVersions) and the metadata that tells who manages it.  An absent
\* string key reads as "", the default every `.get(key, "")` of the code gives.
Resource(kind, name, body) == [kind |-> kind, name |-> name, body |-> body]

Version(name, storage, schema) == [name |-> name, storage |-> storage, schema |-> schema]

CrdBody(group, plural, kind, scope, versions, status, owner) ==
    [group |-> group, plural |-> plural, kind |-> kind, scope |-> scope,
     versions |-> versions, status |-> status, owner |-> owner]

Status(storedVersions) == Some([storedVersions |-> storedVersions])

\* ------------------------------------------------------------------------
\* crd/stored_versions.py
\* ------------------------------------------------------------------------

\* The warning text; sv is the only part that varies.
StoredVersionWarning(sv) == [warning |-> "stored_version_removed", sv |-> sv]

\* for sv in stored_versions: if sv not in new_version_names: warnings.append(...)
RECURSIVE StoredVersionLoop(_, _)
StoredVersionLoop(stored_versions, new_version_names) ==
    IF stored_versions = <<>> THEN <<>>
    ELSE LET sv == Head(stored_versions)
         IN  (IF sv \notin new_version_names THEN <<StoredVersionWarning(sv)>> ELSE <<>>)
             \o StoredVersionLoop(Tail(stored_versions), new_version_names)

\* A mutant of check_stored_version_safety: the stored versions are looked up in
\* the installed CRD's own spec.versions instead of the proposed one's.
check_stored_version_safety_old_versions(old_crd, new_crd) ==
    LET stored_versions ==
            IF old_crd.body.status = None THEN <<>>
            ELSE old_crd.body.status[1].storedVersions
        new_version_names ==
            {old_crd.body.versions[i].name : i \in DOMAIN old_crd.body.versions}
    IN  IF stored_versions = <<>> THEN <<>>
        ELSE StoredVersionLoop(stored_versions, new_version_names)

check_stored_version_safety(old_crd, new_crd) ==
    LET stored_versions ==
            IF old_crd.body.status = None THEN <<>>
            ELSE old_crd.body.status[1].storedVersions
        new_version_names ==
            {new_crd.body.versions[i].name : i \in DOMAIN new_crd.body.versions}
    IN  IF stored_versions = <<>> THEN <<>>
        ELSE StoredVersionLoop(stored_versions, new_version_names)

\* ------------------------------------------------------------------------
\* crd/report.py and crd/policy.py
\* ------------------------------------------------------------------------

CrdChangeDetail(name, status, changes) ==
    [name |-> name, status |-> status, changes |-> changes,
     risk_annotations |-> <<>>, stored_version_warnings |-> <<>>,
     schema_validation_errors |-> <<>>, ownership_conflict |-> None]

CrdReport == [crds |-> <<>>, new_crds |-> <<>>, policy_result |-> None, warnings |-> <<>>]

PolicyResult(mode, blocked, message, exit_code) ==
    [mode |-> mode, blocked |-> blocked, message |-> message, exit_code |-> exit_code]

\* order = {SAFE: 0, WARNING: 1, DANGER: 2}
order(level) == CASE level = SAFE -> 0 [] level = WARNING -> 1 [] level = DANGER -> 2

\* max(annotations, key=lambda a: order[a.level]): the first of the greatest.
RECURSIVE MaxByOrder(_)
MaxByOrder(annotations) ==
    IF Len(annotations) = 1 THEN annotations[1]
    ELSE LET best == MaxByOrder(SubSeq(annotations, 1, Len(annotations) - 1))
             last == annotations[Len(annotations)]
         IN  IF order(last.level) > order(best.level) THEN last ELSE best

\* A mutant of max_risk: the level of the last annotation.
max_risk_last(detail) ==
    IF detail.risk_annotations = <<>> THEN SAFE
    ELSE detail.risk_annotations[Len(detail.risk_annotations)].level

\* CrdChangeDetail.max_risk
max_risk(detail) ==
    IF detail.risk_annotations = <<>> THEN SAFE
    ELSE MaxByOrder(detail.risk_annotations).level

\* CrdReport.has_issues: some CRD's max_risk is WARNING or DANGER.
has_issues(report) ==
    \E i \in DOMAIN report.crds : max_risk(report.crds[i]) \in {WARNING, DANGER}

\* CrdReport.has_dangers: any(crd.max_risk == DANGER for crd in self.crds)
has_dangers(report) ==
    \E i \in DOMAIN report.crds : max_risk(report.crds[i]) = DANGER

PolicyModes == {"ignore", "warn", "fail"}

\* [c for c in report.crds if c.max_risk == level]
CrdsAtRisk(report, level) == SelectSeq(report.crds, LAMBDA c : max_risk(c) = level)

\* ", ".join(c.name for c in crds)
JoinNames(crds) == [i \in DOMAIN crds |-> crds[i].name]

\* f"{len(crds)} CRD(s) with <level>-level changes: {names}"
MessagePart(level, crds) == [count |-> Len(crds), level |-> level, names |-> JoinNames(crds)]

\* A message: its fixed text and the parts computed from the report.
Message(text, parts) == [text |-> text, parts |-> parts]

\* A mutant of evaluate_policy: fail also blocks on a CRD with schema validation
\* errors or an ownership conflict.
evaluate_policy_reads_findings(report, mode) ==
    LET danger_crds == CrdsAtRisk(report, DANGER)
        finding_crds == SelectSeq(report.crds,
                            LAMBDA c : c.schema_validation_errors # <<>>
                                       \/ c.ownership_conflict # None)
    IN  IF mode = "fail" /\ (danger_crds # <<>> \/ finding_crds # <<>>)
        THEN PolicyResult(mode, TRUE,
                          Message("CRD policy: fail - ", <<MessagePart(DANGER, danger_crds)>>), 1)
        ELSE PolicyResult(mode, FALSE, Message("CRD policy: passed", <<>>), 0)

\* A mutant of evaluate_policy: fail blocks on WARNING-level CRDs as well.
evaluate_policy_strict(report, mode) ==
    LET danger_crds == CrdsAtRisk(report, DANGER)
        warning_crds == CrdsAtRisk(report, WARNING)
    IN  IF mode = "fail" /\ (danger_crds # <<>> \/ warning_crds # <<>>)
        THEN PolicyResult(mode, TRUE,
                          Message("CRD policy: fail - ", <<MessagePart(DANGER, danger_crds)>>), 1)
        ELSE PolicyResult(mode, FALSE, Message("CRD policy: passed", <<>>), 0)

evaluate_policy(report, mode) ==
    LET danger_crds == CrdsAtRisk(report, DANGER)
        warning_crds == CrdsAtRisk(report, WARNING)
        parts == (IF danger_crds # <<>> THEN <<MessagePart(DANGER, danger_crds)>> ELSE <<>>)
                 \o (IF warning_crds # <<>> THEN <<MessagePart(WARNING, warning_crds)>> ELSE <<>>)
    IN  IF mode = "ignore"
        THEN PolicyResult(mode, FALSE,
                          Message("CRD policy: ignore (all CRD issues suppressed)", <<>>), 0)
        ELSE IF mode = "warn"
        THEN PolicyResult(mode, FALSE,
                          IF parts = <<>>
                          THEN Message("CRD policy: warn (no issues found)", <<>>)
                          ELSE Message("CRD policy: warn - ", parts), 0)
        \* mode == FAIL
        ELSE IF danger_crds # <<>>
        THEN PolicyResult(mode, TRUE,
                          Message("CRD policy: fail - ", <<MessagePart(DANGER, danger_crds)>>), 1)
        ELSE IF warning_crds # <<>>
        THEN PolicyResult(mode, FALSE,
                          Message("CRD policy: fail (passed) - ",
                                  <<MessagePart(WARNING, warning_crds)>>), 0)
        ELSE PolicyResult(mode, FALSE,
                          Message("CRD policy: fail (passed) - no issues found", <<>>), 0)

\* ------------------------------------------------------------------------
\* YAML trees: schemas and custom resources
\* ------------------------------------------------------------------------

\* A node of a parsed YAML document.  A mapping keeps its pairs <<key, value>> in
\* document order.  Floats are left out.
JNull == [t |-> "null"]
JBool(b) == [t |-> "bool", b |-> b]
JInt(n) == [t |-> "int", n |-> n]
JStr(s) == [t |-> "str", s |-> s]
JList(items) == [t |-> "list", items |-> items]
JDict(pairs) == [t |-> "dict", pairs |-> pairs]

\* A regular expression held by a schema's `pattern`: whether it compiles, and
\* the strings re.match accepts.
JPattern(compiles, accepts) == [t |-> "pattern", compiles |-> compiles, accepts |-> accepts]

\* key in d, d[key], d.get(key, default)
Has(d, key) == \E i \in DOMAIN d.pairs : d.pairs[i][1] = key
At(d, key) == d.pairs[CHOOSE i \in DOMAIN d.pairs : d.pairs[i][1] = key][2]
Get(d, key, default) == IF Has(d, key) THEN At(d, key) ELSE default

\* type(value).__name__
TypeName(value) ==
    CASE value.t = "null" -> "NoneType"
      [] value.t = "bool" -> "bool"
      [] value.t = "int" -> "int"
      [] value.t = "str" -> "str"
      [] value.t = "list" -> "list"
      [] value.t = "dict" -> "dict"

\* isinstance(value, (int, float)): a bool is an int.
IsNumber(value) == value.t \in {"int", "bool"}
NumberOf(value) == IF value.t = "bool" THEN (IF value.b THEN 1 ELSE 0) ELSE value.n

\* a == b in Python: numbers by value (True == 1), mappings whatever the order of
\* their keys, the rest by structure.
RECURSIVE PyEq(_, _)
PyEq(a, b) ==
    IF IsNumber(a) /\ IsNumber(b) THEN NumberOf(a) = NumberOf(b)
    ELSE IF a.t # b.t THEN FALSE
    ELSE IF a.t = "list"
    THEN /\ Len(a.items) = Len(b.items)
         /\ \A i \in DOMAIN a.items : PyEq(a.items[i], b.items[i])
    ELSE IF a.t = "dict"
    THEN /\ \A i \in DOMAIN a.pairs : Has(b, a.pairs[i][1])
         /\ \A i \in DOMAIN b.pairs : Has(a, b.pairs[i][1])
         /\ \A i \in DOMAIN a.pairs : PyEq(a.pairs[i][2], At(b, a.pairs[i][1]))
    ELSE a = b

\* The digits of a list index.
IndexLexeme(i) == <<"0", "1", "2", "3", "4", "5", "6", "7", "8", "9">>[i + 1]

\* ------------------------------------------------------------------------
\* crd/schema_validator.py
\* ------------------------------------------------------------------------

\* f"At '{path}': {reason}"
SchemaError(path, reason) == [at |-> path, reason |-> reason]

\* f"{path}.{name}" if path else name
ChildPath(path, name) == IF path # <<>> THEN path \o <<".", name>> ELSE <<name>>

\* A mutant of _check_type: a bool passes for an integer, as isinstance says.
_check_type_bool_is_int(value, schema_type) ==
    IF value.t = "null" THEN TRUE
    ELSE CASE schema_type = "string" -> value.t = "str"
           [] schema_type = "integer" -> value.t \in {"int", "bool"}
           [] schema_type = "number" -> value.t \in {"int", "bool"}
           [] schema_type = "boolean" -> value.t = "bool"
           [] schema_type = "object" -> value.t = "dict"
           [] schema_type = "array" -> value.t = "list"
           [] OTHER -> TRUE

_check_type(value, schema_type) ==
    IF value.t = "null" THEN TRUE
    ELSE IF schema_type \notin {"string", "integer", "number", "boolean", "object", "array"}
    THEN TRUE
    ELSE IF schema_type = "integer" /\ value.t = "bool" THEN FALSE
    ELSE CASE schema_type = "string" -> value.t = "str"
           [] schema_type = "integer" -> value.t \in {"int", "bool"}
           [] schema_type = "number" -> value.t \in {"int", "bool"}
           [] schema_type = "boolean" -> value.t = "bool"
           [] schema_type = "object" -> value.t = "dict"
           [] schema_type = "array" -> value.t = "list"

\* A mutant of IsUnknownField: the four envelope keys are not exempt.
IsUnknownField_envelope_too(properties, key) == ~Has(properties, key)

\* key not in properties and key not in ("apiVersion", "kind", "metadata", "status")
IsUnknownField(properties, key) ==
    /\ ~Has(properties, key)
    /\ key \notin {"apiVersion", "kind", "metadata", "status"}

RECURSIVE _validate_object(_, _, _)
_validate_object(value, schema, path) ==
    IF schema.t # "dict" THEN <<>>
    ELSE
    LET schema_type == Get(schema, "type", JNull)
        is_typed == schema_type.t = "str" /\ schema_type.s # ""
    IN  IF is_typed /\ ~_check_type(value, schema_type.s)
        THEN <<SchemaError(path, [kind |-> "expected type", expected |-> schema_type.s,
                                  got |-> TypeName(value)])>>
        ELSE
        LET enum_errors ==
                IF Has(schema, "enum")
                   /\ ~\E i \in DOMAIN At(schema, "enum").items :
                          PyEq(value, At(schema, "enum").items[i])
                THEN <<SchemaError(path, [kind |-> "not in enum", value |-> value])>>
                ELSE <<>>
            pattern_errors ==
                IF Has(schema, "pattern") /\ value.t = "str"
                   /\ At(schema, "pattern").compiles
                   /\ value.s \notin At(schema, "pattern").accepts
                THEN <<SchemaError(path, [kind |-> "does not match pattern", value |-> value])>>
                ELSE <<>>
            minimum_errors ==
                IF Has(schema, "minimum") /\ IsNumber(value)
                   /\ NumberOf(value) < At(schema, "minimum").n
                THEN <<SchemaError(path, [kind |-> "< minimum", value |-> value])>>
                ELSE <<>>
            maximum_errors ==
                IF Has(schema, "maximum") /\ IsNumber(value)
                   /\ NumberOf(value) > At(schema, "maximum").n
                THEN <<SchemaError(path, [kind |-> "> maximum", value |-> value])>>
                ELSE <<>>
            is_object == is_typed /\ schema_type.s = "object" /\ value.t = "dict"
            properties == Get(schema, "properties", JDict(<<>>))
            required == Get(schema, "required", JList(<<>>))
            additional == Get(schema, "additionalProperties", JNull)
            required_errors ==
                Concat([i \in DOMAIN required.items |->
                    IF ~Has(value, required.items[i].s)
                    THEN <<SchemaError(path, [kind |-> "missing required field",
                                              field |-> required.items[i].s])>>
                    ELSE <<>>])
            property_errors ==
                Concat([i \in DOMAIN properties.pairs |->
                    LET prop_name == properties.pairs[i][1]
                    IN  IF Has(value, prop_name)
                        THEN _validate_object(At(value, prop_name), properties.pairs[i][2],
                                              ChildPath(path, prop_name))
                        ELSE <<>>])
            additional_errors ==
                IF additional = JBool(FALSE)
                THEN Concat([i \in DOMAIN value.pairs |->
                         LET key == value.pairs[i][1]
                         IN  IF IsUnknownField(properties, key)
                             THEN <<SchemaError(path, [kind |-> "unknown field", field |-> key])>>
                             ELSE <<>>])
                ELSE IF additional.t = "dict"
                THEN Concat([i \in DOMAIN value.pairs |->
                         LET key == value.pairs[i][1]
                         IN  IF ~Has(properties, key)
                             THEN _validate_object(value.pairs[i][2], additional,
                                                   ChildPath(path, key))
                             ELSE <<>>])
                ELSE <<>>
            is_array == is_typed /\ schema_type.s = "array" /\ value.t = "list"
            items_schema == Get(schema, "items", JDict(<<>>))
            item_errors ==
                Concat([i \in DOMAIN value.items |->
                    _validate_object(value.items[i], items_schema,
                                     path \o <<"[", IndexLexeme(i - 1), "]">>)])
        IN  enum_errors \o pattern_errors \o minimum_errors \o maximum_errors
            \o (IF is_object THEN required_errors \o property_errors \o additional_errors
                ELSE <<>>)
            \o (IF is_array THEN item_errors ELSE <<>>)

\* f"{namespace}/{name}" if namespace else name
\* A mutant of CrPrefix: the namespace and the slash are always written.
CrPrefix_always_namespaced(cr) ==
    LET metadata == Get(cr, "metadata", JDict(<<>>))
        name == Get(metadata, "name", JStr("<unknown>")).s
        namespace == Get(metadata, "namespace", JStr("")).s
    IN  <<namespace, "/", name>>

CrPrefix(cr) ==
    LET metadata == Get(cr, "metadata", JDict(<<>>))
        name == Get(metadata, "name", JStr("<unknown>")).s
        namespace == Get(metadata, "namespace", JStr("")).s
    IN  IF namespace # "" THEN <<namespace, "/", name>> ELSE <<name>>

\* f"{prefix}: {err}"
CrError(prefix, err) == [prefix |-> prefix, at |-> err.at, reason |-> err.reason]

validate_crs_against_schema(crs, schema) ==
    Concat([c \in DOMAIN crs |->
        LET cr_errors == _validate_object(crs[c], schema, <<>>)
        IN  [e \in DOMAIN cr_errors |-> CrError(CrPrefix(crs[c]), cr_errors[e])]])

\* find_schema_for_version: the openAPIV3Schema of the first version of that name.
RECURSIVE find_schema_for_version(_, _)
find_schema_for_version(versions, version) ==
    IF versions = <<>> THEN None
    ELSE IF Head(versions).name = version THEN Head(versions).schema
    ELSE find_schema_for_version(Tail(versions), version)

\* ------------------------------------------------------------------------
\* analysis/ownership.py (detect_ownership) and crd/ownership.py
\* ------------------------------------------------------------------------

OwnershipInfo(manager, release, app) == [manager |-> manager, release |-> release, app |-> app]

Unowned == OwnershipInfo("unknown", "", "")

\* The body's `owner` stands for the labels and annotations of section 4.4.2: the
\* manager they show, the meta.helm.sh/release-name annotation, the
\* app.kubernetes.io/name label.
detect_ownership(crd) == crd.body.owner

\* A mutant of check_crd_ownership: the Helm release is not compared.
check_crd_ownership_any_release(crd, expected_release) ==
    LET ownership == detect_ownership(crd)
    IN  IF ownership.manager = "unknown" THEN None
        ELSE IF ownership.manager # "helm"
        THEN Some([conflict |-> "not managed by Helm", crd |-> crd.name,
                   manager |-> ownership.manager, app |-> ownership.app])
        ELSE None

check_crd_ownership(crd, expected_release) ==
    LET ownership == detect_ownership(crd)
    IN  IF ownership.manager = "unknown" THEN None
        ELSE IF ownership.manager # "helm"
        THEN Some([conflict |-> "not managed by Helm", crd |-> crd.name,
                   manager |-> ownership.manager, app |-> ownership.app])
        ELSE IF /\ expected_release # ""
                /\ ownership.release # ""
                /\ ownership.release # expected_release
        THEN Some([conflict |-> "owned by another Helm release", crd |-> crd.name,
                   release |-> ownership.release, expected |-> expected_release])
        ELSE None

\* ------------------------------------------------------------------------
\* crd/extraction.py
\* ------------------------------------------------------------------------

IsCrd(r) == r.kind = "CustomResourceDefinition"

extract_crds_from_resources(resources) == SelectSeq(resources, IsCrd)

\* One file of the crds/ folder: its extension, whether it can be read and parsed,
\* and the resources parse_multi_doc finds in it.
CrdFile(ext, readable, docs) == [ext |-> ext, readable |-> readable, docs |-> docs]

\* The CRDs of the readable files of one extension, in the order of the (sorted)
\* listing; a file that cannot be read or parsed is skipped.
ChartFilesOf(files, ext) ==
    Concat([i \in DOMAIN files |->
        IF files[i].ext = ext /\ files[i].readable
        THEN SelectSeq(files[i].docs, IsCrd)
        ELSE <<>>])

\* crds_dir is None when the chart has no crds/ folder, or else the sorted listing
\* of its files: *.yaml first, then *.yml.
extract_crds_from_chart_dir(crds_dir) ==
    IF crds_dir = None THEN <<>>
    ELSE ChartFilesOf(crds_dir[1], "yaml") \o ChartFilesOf(crds_dir[1], "yml")

\* for c in chart_crds: if c.name not in existing_names: proposed_crds.append(c)
\* (existing_names is computed once, before the loop).
MergeChartCrds(proposed_crds, chart_crds) ==
    LET existing_names == {proposed_crds[i].name : i \in DOMAIN proposed_crds}
    IN  proposed_crds \o SelectSeq(chart_crds, LAMBDA c : c.name \notin existing_names)

\* ------------------------------------------------------------------------
\* crd/discovery.py
\* ------------------------------------------------------------------------

\* What a command prints: nothing usable (the command fails with a RunError), or
\* YAML text.  The text is one mapping with a top-level kind and items (a list
\* wrapper), or a stream of documents.
RunError == [ok |-> FALSE]
ListOutput(kind, items) == [ok |-> TRUE, shape |-> "list", kind |-> kind, docs |-> items]
StreamOutput(docs) == [ok |-> TRUE, shape |-> "stream", docs |-> docs]

\* parser/manifest.py, parse_multi_doc: the resources of the documents of a
\* stream, in document order; a document of kind List gives those of its items.
parse_multi_doc(output) == output.docs

\* A call of a function ends in a value, or in a RunError that unwinds to the
\* caller.
Returned(value) == [raised |-> FALSE, value |-> value]
Raised == [raised |-> TRUE, value |-> <<>>]

\* A mutant of discover_cluster_crds: the RunError of the command is not caught.
discover_cluster_crds_uncaught(output) ==
    IF ~output.ok THEN Raised
    ELSE IF output.shape = "stream" /\ Len(output.docs) # 1 THEN Returned(<<>>)
    ELSE IF output.shape = "list" /\ output.kind = "CustomResourceDefinitionList"
    THEN Returned(output.docs)
    ELSE Returned(SelectSeq(parse_multi_doc(output), IsCrd))

\* discover_cluster_crds on the outcome of `kubectl get crds -o yaml`.
\* yaml.safe_load raises a YAMLError on a stream of several documents and gives
\* None on an empty one; a mapping that is not a CustomResourceDefinitionList
\* goes to parse_multi_doc.
discover_cluster_crds(output) ==
    IF ~output.ok THEN Returned(<<>>)
    ELSE IF output.shape = "stream" /\ Len(output.docs) # 1 THEN Returned(<<>>)
    ELSE IF output.shape = "list" /\ output.kind = "CustomResourceDefinitionList"
    THEN Returned([i \in DOMAIN output.docs |->
                     Resource("CustomResourceDefinition", output.docs[i].name,
                              output.docs[i].body)])
    ELSE Returned(SelectSeq(parse_multi_doc(output), IsCrd))

\* A mutant of fetch_custom_resources: the RunError of the command is not caught.
fetch_custom_resources_uncaught(output) ==
    IF ~output.ok THEN Raised
    ELSE IF output.shape = "list" THEN Returned(output.docs)
    ELSE Returned(<<>>)

\* fetch_custom_resources on the outcome of `kubectl get <plural>.<group> -A -o yaml`:
\* data.get("items", []).
fetch_custom_resources(output) ==
    IF ~output.ok THEN Returned(<<>>)
    ELSE IF output.shape = "list" THEN Returned(output.docs)
    ELSE Returned(<<>>)

\* ------------------------------------------------------------------------
\* crd/detect_new.py
\* ------------------------------------------------------------------------

NewCrdInfo(name, group, kind, versions) ==
    [name |-> name, group |-> group, kind |-> kind, versions |-> versions]

\* A mutant of detect_new_crds: every proposed CRD is reported as new.
detect_new_crds_all_proposed(installed, proposed) ==
    [i \in DOMAIN proposed |->
        NewCrdInfo(proposed[i].name, proposed[i].body.group, proposed[i].body.kind,
                   [v \in DOMAIN proposed[i].body.versions |->
                       proposed[i].body.versions[v].name])]

detect_new_crds(installed, proposed) ==
    LET installed_names == {installed[i].name : i \in DOMAIN installed}
        new == SelectSeq(proposed, LAMBDA r : r.name \notin installed_names)
    IN  [i \in DOMAIN new |->
            NewCrdInfo(new[i].name, new[i].body.group, new[i].body.kind,
                       [v \in DOMAIN new[i].body.versions |-> new[i].body.versions[v].name])]

\* ------------------------------------------------------------------------
\* diff/filters.py, diff/semantic.py, diff/engine.py (as crd/differ.py uses them)
\* ------------------------------------------------------------------------

\* strip_noise(body, CRD_NOISE_PATHS): the status and the meta.helm.sh/*
\* annotations (the Helm release mark) are dropped; labels stay.
strip_noise(body) ==
    [body EXCEPT !.status = None,
                 !.owner = IF @.manager = "helm" THEN Unowned ELSE @]

\* normalize_body sorts container ports, env vars and the like and reduces
\* quantity strings; a CustomResourceDefinition holds none of them.
normalize_body(body) == body

\* The lexemes of the paths the diff produces, in the order of their strings.
LexemeOrder ==
    <<".", "0", "1", "2", "[", "]",
      "additionalProperties", "color", "enum", "group", "items", "kind", "labels",
      "maximum", "metadata", "minimum", "name", "names", "openAPIV3Schema",
      "pattern", "plural", "properties", "replicas", "required", "schema",
      "scope", "size", "spec", "storage", "type", "versions">>

LexemeRank(l) == CHOOSE i \in DOMAIN LexemeOrder : LexemeOrder[i] = l

ChangeTypeOrder == <<"item_added", "item_removed", "type_changed", "value_changed">>

ChangeTypeRank(t) == CHOOSE i \in DOMAIN ChangeTypeOrder : ChangeTypeOrder[i] = t

RECURSIVE PathLess(_, _)
PathLess(p, q) ==
    IF q = <<>> THEN FALSE
    ELSE IF p = <<>> THEN TRUE
    ELSE IF Head(p) = Head(q) THEN PathLess(Tail(p), Tail(q))
    ELSE LexemeRank(Head(p)) < LexemeRank(Head(q))

\* (a.path, a.change_type) < (b.path, b.change_type)
ChangeLess(a, b) ==
    \/ PathLess(a.path, b.path)
    \/ a.path = b.path /\ ChangeTypeRank(a.change_type) < ChangeTypeRank(b.change_type)

RECURSIVE InsertChange(_, _)
InsertChange(c, sorted) ==
    IF sorted = <<>> THEN <<c>>
    ELSE IF ChangeLess(c, Head(sorted)) THEN <<c>> \o sorted
    ELSE <<Head(sorted)>> \o InsertChange(c, Tail(sorted))

\* sorted(changes, key=(path, change_type))
RECURSIVE SortChanges(_)
SortChanges(changes) ==
    IF changes = <<>> THEN <<>>
    ELSE InsertChange(Head(changes), SortChanges(Tail(changes)))

IndexPath(path, i) == path \o <<"[", IndexLexeme(i), "]">>

\* The structural diff of two YAML trees: type_changes, dictionary_item_removed
\* and _added, iterable_item_removed and _added, values_changed.
RECURSIVE TreeDiff(_, _, _)
TreeDiff(old, new, path) ==
    IF old.t # new.t THEN <<FieldChange(path, "type_changed")>>
    ELSE IF old.t = "dict"
    THEN Concat([i \in DOMAIN old.pairs |->
                    IF Has(new, old.pairs[i][1])
                    THEN TreeDiff(old.pairs[i][2], At(new, old.pairs[i][1]),
                                  ChildPath(path, old.pairs[i][1]))
                    ELSE <<FieldChange(ChildPath(path, old.pairs[i][1]), "item_removed")>>])
         \o Concat([i \in DOMAIN new.pairs |->
                    IF Has(old, new.pairs[i][1]) THEN <<>>
                    ELSE <<FieldChange(ChildPath(path, new.pairs[i][1]), "item_added")>>])
    ELSE IF old.t = "list"
    THEN Concat([i \in DOMAIN old.items |->
                    IF i \in DOMAIN new.items
                    THEN TreeDiff(old.items[i], new.items[i], IndexPath(path, i - 1))
                    ELSE <<FieldChange(IndexPath(path, i - 1), "item_removed")>>])
         \o Concat([i \in DOMAIN new.items |->
                    IF i \in DOMAIN old.items THEN <<>>
                    ELSE <<FieldChange(IndexPath(path, i - 1), "item_added")>>])
    ELSE IF old # new THEN <<FieldChange(path, "value_changed")>>
    ELSE <<>>

\* A string key that may be absent ("").
KeyDiff(old, new, path) ==
    IF old = new THEN <<>>
    ELSE IF old = "" THEN <<FieldChange(path, "item_added")>>
    ELSE IF new = "" THEN <<FieldChange(path, "item_removed")>>
    ELSE <<FieldChange(path, "value_changed")>>

\* An optional schema under spec.versions[i].schema.
SchemaDiff(old, new, path) ==
    IF old = None /\ new = None THEN <<>>
    ELSE IF old = None THEN <<FieldChange(path, "item_added")>>
    ELSE IF new = None THEN <<FieldChange(path, "item_removed")>>
    ELSE TreeDiff(old[1], new[1], ChildPath(path, "openAPIV3Schema"))

VersionDiff(old, new, path) ==
    KeyDiff(old.name, new.name, ChildPath(path, "name"))
    \o (IF old.storage # new.storage
        THEN <<FieldChange(ChildPath(path, "storage"), "value_changed")>> ELSE <<>>)
    \o SchemaDiff(old.schema, new.schema, ChildPath(path, "schema"))

VersionsDiff(old, new, path) ==
    Concat([i \in DOMAIN old |->
               IF i \in DOMAIN new
               THEN VersionDiff(old[i], new[i], IndexPath(path, i - 1))
               ELSE <<FieldChange(IndexPath(path, i - 1), "item_removed")>>])
    \o Concat([i \in DOMAIN new |->
               IF i \in DOMAIN old THEN <<>>
               ELSE <<FieldChange(IndexPath(path, i - 1), "item_added")>>])

\* The labels that tell the manager: present or absent, equal or not.
LabelsDiff(old, new) ==
    IF old = new THEN <<>>
    ELSE IF old = Unowned THEN <<FieldChange(<<"metadata", ".", "labels">>, "item_added")>>
    ELSE IF new = Unowned THEN <<FieldChange(<<"metadata", ".", "labels">>, "item_removed")>>
    ELSE <<FieldChange(<<"metadata", ".", "labels">>, "value_changed")>>

\* _extract_changes(DeepDiff(old_body, new_body)): the FieldChanges of two CRD
\* bodies, sorted by (path, change_type).
_extract_changes(old_body, new_body) ==
    SortChanges(
        LabelsDiff(old_body.owner, new_body.owner)
        \o KeyDiff(old_body.group, new_body.group, <<"spec", ".", "group">>)
        \o KeyDiff(old_body.kind, new_body.kind, <<"spec", ".", "names", ".", "kind">>)
        \o KeyDiff(old_body.plural, new_body.plural, <<"spec", ".", "names", ".", "plural">>)
        \o KeyDiff(old_body.scope, new_body.scope, <<"spec", ".", "scope">>)
        \o VersionsDiff(old_body.versions, new_body.versions, <<"spec", ".", "versions">>))

\* Equal at every path; the equivalences of section 4.3.3 (numeric strings,
\* quantities) concern values a CustomResourceDefinition does not hold.
is_semantically_equal(old_body, new_body) == _extract_changes(old_body, new_body) = <<>>

\* ------------------------------------------------------------------------
\* crd/differ.py
\* ------------------------------------------------------------------------

ResourcePair(old, new, status) == [old |-> old, new |-> new, status |-> status]

\* list(dict.fromkeys(names)): the names, first seen first, each once.
RECURSIVE FirstSeen(_, _)
FirstSeen(names, seen) ==
    IF names = <<>> THEN <<>>
    ELSE IF Head(names) \in seen THEN FirstSeen(Tail(names), seen)
    ELSE <<Head(names)>> \o FirstSeen(Tail(names), seen \cup {Head(names)})

NamesOf(resources) == [i \in DOMAIN resources |-> resources[i].name]

\* {r.name: r for r in resources}.get(name): the last resource of that name.
MapGet(resources, name) ==
    IF \E i \in DOMAIN resources : resources[i].name = name
    THEN Some(resources[CHOOSE i \in DOMAIN resources :
                  /\ resources[i].name = name
                  /\ \A j \in DOMAIN resources : resources[j].name = name => j <= i])
    ELSE None

\* old_res.body == new_res.body: the equality of Python mappings, whatever the
\* order of the keys of a schema.
OptEq(a, b) == IF a = None \/ b = None THEN a = b ELSE PyEq(a[1], b[1])

BodyEq(a, b) ==
    /\ [a EXCEPT !.versions = <<>>] = [b EXCEPT !.versions = <<>>]
    /\ Len(a.versions) = Len(b.versions)
    /\ \A i \in DOMAIN a.versions :
          /\ a.versions[i].name = b.versions[i].name
          /\ a.versions[i].storage = b.versions[i].storage
          /\ OptEq(a.versions[i].schema, b.versions[i].schema)

\* A mutant of pair_crds: an installed CRD whose body differs is still unchanged.
pair_crds_all_unchanged(installed, proposed) ==
    LET all_names == FirstSeen(NamesOf(installed) \o NamesOf(proposed), {})
    IN  [i \in DOMAIN all_names |->
            LET old_res == MapGet(installed, all_names[i])
                new_res == MapGet(proposed, all_names[i])
            IN  IF old_res = None THEN ResourcePair(None, new_res, "added")
                ELSE IF new_res = None THEN ResourcePair(old_res, None, "removed")
                ELSE ResourcePair(old_res, new_res, "unchanged")]

pair_crds(installed, proposed) ==
    LET all_names == FirstSeen(NamesOf(installed) \o NamesOf(proposed), {})
    IN  [i \in DOMAIN all_names |->
            LET old_res == MapGet(installed, all_names[i])
                new_res == MapGet(proposed, all_names[i])
            IN  IF old_res = None THEN ResourcePair(None, new_res, "added")
                ELSE IF new_res = None THEN ResourcePair(old_res, None, "removed")
                ELSE IF BodyEq(old_res[1].body, new_res[1].body)
                THEN ResourcePair(old_res, new_res, "unchanged")
                ELSE ResourcePair(old_res, new_res, "changed")]

\* A mutant of DiffPair: every pair is kept, with the changes found if any.
DiffPair_keeps_every_pair(pair) ==
    IF pair.status \in {"added", "removed"} THEN <<[pair |-> pair, changes |-> <<>>]>>
    ELSE <<[pair |-> pair,
            changes |-> _extract_changes(normalize_body(strip_noise(pair.old[1].body)),
                                         normalize_body(strip_noise(pair.new[1].body)))]>>

\* One pair of diff_crds: nothing for an unchanged pair or a pair without a
\* change, else (pair, changes).
DiffPair(pair) ==
    IF pair.status \in {"added", "removed"} THEN <<[pair |-> pair, changes |-> <<>>]>>
    ELSE IF pair.status = "unchanged" THEN <<>>
    ELSE LET old_body == normalize_body(strip_noise(pair.old[1].body))
             new_body == normalize_body(strip_noise(pair.new[1].body))
             changes == _extract_changes(old_body, new_body)
         IN  IF is_semantically_equal(old_body, new_body) THEN <<>>
             ELSE IF changes # <<>> THEN <<[pair |-> pair, changes |-> changes]>>
             ELSE <<>>

diff_crds(pairs) == Concat([i \in DOMAIN pairs |-> DiffPair(pairs[i])])

\* ------------------------------------------------------------------------
\* The state of one run: cli.py (diff) and crd/pipeline.py (run_crd_pipeline)
\* ------------------------------------------------------------------------

VARIABLES
    pc,                 \* where the run is
    release,            \* diff: RELEASE; run_crd_pipeline: release_name
    chart,              \* diff: CHART; run_crd_pipeline: chart_path (None or a path)
    server_side,        \* --server-side
    check_crds,         \* --check-crds
    crd_policy,         \* --crd-policy; run_crd_pipeline: policy_mode
    live_resources,     \* diff
    upgrade_resources,  \* diff, and the argument of run_crd_pipeline
    results,            \* _apply_server_side: the resources collected so far
    crd_report,         \* diff: None or the CrdReport
    output,             \* None, or what has been rendered
    exit_code,          \* None, or the status the process exits with
    proposed_crds,      \* run_crd_pipeline
    chart_crds,
    installed_crds,
    installed_relevant,
    pairs,
    diff_results,
    done,               \* the entries of diff_results the loop has finished
    detail,             \* the CrdChangeDetail of the entry at hand
    report,
    calls,              \* the external commands started, in order, with their outcome
    inflight,           \* the calls (indices of calls) started and not yet returned
    steps               \* the pipeline steps performed, in order

cliVars == <<release, chart, server_side, check_crds, crd_policy, live_resources,
             upgrade_resources, results, crd_report, output, exit_code>>

pipelineVars == <<proposed_crds, chart_crds, installed_crds, installed_relevant, pairs,
                  diff_results, done, detail, report, steps>>

runVars == <<pc, cliVars, pipelineVars, calls, inflight>>

\* An external command is started (core.runner.run): the caller blocks until it
\* returns.  target is the resource a `kubectl get` asks for.
Start(cmd, target) ==
    /\ calls' = Append(calls, [cmd |-> cmd, target |-> target, ok |-> None])
    /\ inflight' = inflight \cup {Len(calls) + 1}

\* The command started last returns, with success or with a RunError.
Return(ok) ==
    /\ calls' = [calls EXCEPT ![Len(calls)].ok = Some(ok)]
    /\ inflight' = inflight \ {Len(calls)}

\* ------------------------------------------------------------------------
\* The chart, the release and the cluster of the runs: the resources the
\* commands can answer with
\* ------------------------------------------------------------------------

Dict1(k, v) == JDict(<<<<k, v>>>>)
Dict2(k1, v1, k2, v2) == JDict(<<<<k1, v1>>, <<k2, v2>>>>)
Dict3(k1, v1, k2, v2, k3, v3) == JDict(<<<<k1, v1>>, <<k2, v2>>, <<k3, v3>>>>)

TypeOnly(type) == Dict1("type", JStr(type))

\* The schema the cluster serves: spec.size, an integer.
WidgetSchemaV1 ==
    Dict2("type", JStr("object"),
          "properties", Dict1("spec",
              Dict2("type", JStr("object"),
                    "properties", Dict1("size", TypeOnly("integer")))))

\* The schema the chart proposes: spec.color is added, and required.
WidgetSchemaV2 ==
    Dict2("type", JStr("object"),
          "properties", Dict1("spec",
              Dict3("type", JStr("object"),
                    "properties", Dict2("size", TypeOnly("integer"),
                                        "color", TypeOnly("string")),
                    "required", JList(<<JStr("color")>>))))

Crd(name, body) == Resource("CustomResourceDefinition", name, body)

WidgetBody(versions, status, owner) ==
    CrdBody("example.com", "widgets", "Widget", "Namespaced", versions, status, owner)

\* widgets.example.com as installed: v1 and v2 served, v2 stored after v1.
InstalledWidgets(owner) ==
    Crd("widgets.example.com",
        WidgetBody(<<Version("v1", FALSE, Some(WidgetSchemaV1)),
                     Version("v2", TRUE, Some(WidgetSchemaV1))>>,
                   Status(<<"v1", "v2">>), owner))

\* The chart's widgets.example.com: as installed, or with v1 dropped and the new
\* schema, or that without a storage version.
SameWidgets ==
    Crd("widgets.example.com",
        WidgetBody(<<Version("v1", FALSE, Some(WidgetSchemaV1)),
                     Version("v2", TRUE, Some(WidgetSchemaV1))>>, None, Unowned))

NewWidgets ==
    Crd("widgets.example.com",
        WidgetBody(<<Version("v2", TRUE, Some(WidgetSchemaV2))>>, None, Unowned))

WidgetsNoStorage ==
    Crd("widgets.example.com",
        WidgetBody(<<Version("v2", FALSE, Some(WidgetSchemaV2))>>, None, Unowned))

\* gadgets.example.com: one version, no schema.
Gadgets ==
    Crd("gadgets.example.com",
        CrdBody("example.com", "gadgets", "Gadget", "Cluster",
                <<Version("v1", TRUE, None)>>, None, Unowned))

\* A CRD of the cluster that the chart does not hold.
Doodads ==
    Crd("doodads.example.com",
        CrdBody("example.com", "doodads", "Doodad", "Namespaced",
                <<Version("v1", TRUE, None)>>, Status(<<"v1">>), Unowned))

\* A resource that is not a CRD.
Deployment == Resource("Deployment", "web", [rendered_by |-> "helm"])

\* The same resource as the API server returns it from a dry-run.
Applied(res) ==
    IF IsCrd(res) THEN [res EXCEPT !.body.status = Status(<<>>)]
    ELSE [res EXCEPT !.body.rendered_by = "server"]

\* Live widgets: default/my-widget, with or without spec.color.
MyWidget(spec) ==
    Dict2("metadata", Dict2("namespace", JStr("default"), "name", JStr("my-widget")),
          "spec", spec)

ValidWidget == MyWidget(Dict2("size", JInt(1), "color", JStr("red")))
InvalidWidget == MyWidget(Dict1("size", JInt(1)))

\* What `helm get manifest` and `helm upgrade --dry-run` can answer.
LiveManifests == {RunError, StreamOutput(<<Deployment>>)}

RenderedManifests ==
    {RunError, StreamOutput(<<>>), StreamOutput(<<Deployment>>),
     StreamOutput(<<Deployment, NewWidgets>>)}

\* What `kubectl apply --dry-run=server` can answer for one resource.
ServerSideOutcomes(res) == {RunError, StreamOutput(<<>>), StreamOutput(<<Applied(res)>>)}

\* The chart's crds/ folder: absent; one file that cannot be read and one with
\* gadgets.example.com; or gadgets.example.com in a .yaml file and again in a
\* .yml file, which also holds widgets.example.com.
ChartDirs ==
    {None,
     Some(<<CrdFile("yaml", FALSE, <<>>), CrdFile("yaml", TRUE, <<Gadgets>>)>>),
     Some(<<CrdFile("yaml", TRUE, <<Gadgets>>), CrdFile("yml", TRUE, <<Gadgets, NewWidgets>>)>>)}

\* A chart on disk: its path and its crds/ folder.
Chart(path, crds_dir) == [path |-> path, crds_dir |-> crds_dir]

Charts == {Chart("./chart", crds_dir) : crds_dir \in ChartDirs}

\* What `kubectl get crds -o yaml` can answer.
GetCrdsOutcomes ==
    {RunError,
     ListOutput("CustomResourceDefinitionList", <<>>),
     ListOutput("CustomResourceDefinitionList", <<InstalledWidgets(Unowned)>>),
     ListOutput("CustomResourceDefinitionList",
                <<Doodads, InstalledWidgets(OwnershipInfo("argocd", "", "shop"))>>),
     ListOutput("CustomResourceDefinitionList",
                <<InstalledWidgets(OwnershipInfo("helm", "other", ""))>>),
     ListOutput("CustomResourceDefinitionList",
                <<InstalledWidgets(OwnershipInfo("helm", "", "shop"))>>),
     ListOutput("List", <<InstalledWidgets(OwnershipInfo("flux", "", ""))>>),
     StreamOutput(<<InstalledWidgets(OwnershipInfo("helm", "shop", "shop"))>>),
     StreamOutput(<<InstalledWidgets(Unowned), Doodads>>)}

\* What `kubectl get <plural>.<group> -A -o yaml` can answer.
GetCrOutcomes ==
    {RunError, ListOutput("List", <<>>), ListOutput("List", <<ValidWidget>>),
     ListOutput("List", <<InvalidWidget>>)}

\* ------------------------------------------------------------------------
\* cli.py: the diff command
\* ------------------------------------------------------------------------

\* 1. Fetch live manifests: get_manifest(release, ns)
GetManifestCall ==
    /\ pc = "diff"
    /\ Start("get_manifest", <<>>)
    /\ pc' = "get_manifest"
    /\ UNCHANGED <<fnVars, cliVars, pipelineVars>>

\* get_manifest returns, or raises the RunError that diff turns into exit 1.
GetManifestReturn ==
    /\ pc = "get_manifest"
    /\ \E out \in LiveManifests :
          /\ Return(out.ok)
          /\ IF out.ok
             THEN /\ live_resources' = parse_multi_doc(out)
                  /\ pc' = "render"
                  /\ UNCHANGED exit_code
             ELSE /\ exit_code' = Some(1)
                  /\ pc' = "exited"
                  /\ UNCHANGED live_resources
    /\ UNCHANGED <<fnVars, release, chart, server_side, check_crds, crd_policy,
                   upgrade_resources, results, crd_report, output, pipelineVars>>

\* 2. Render upgrade (dry-run): dry_run_upgrade(release, chart, ns, ...)
DryRunUpgradeCall ==
    /\ pc = "render"
    /\ Start("dry_run_upgrade", <<>>)
    /\ pc' = "dry_run_upgrade"
    /\ UNCHANGED <<fnVars, cliVars, pipelineVars>>

DryRunUpgradeReturn ==
    /\ pc = "dry_run_upgrade"
    /\ \E out \in RenderedManifests :
          /\ Return(out.ok)
          /\ IF out.ok
             THEN /\ upgrade_resources' = parse_multi_doc(out)
                  /\ pc' = IF server_side THEN "apply_server_side" ELSE "pair"
                  /\ UNCHANGED exit_code
             ELSE /\ exit_code' = Some(1)
                  /\ pc' = "exited"
                  /\ UNCHANGED upgrade_resources
    /\ UNCHANGED <<fnVars, release, chart, server_side, check_crds, crd_policy,
                   live_resources, results, crd_report, output, pipelineVars>>

\* A mutant of ServerSideDryRunCall: the dry-run of the next resource is started
\* while the previous one is still running.
ServerSideDryRunCall_concurrent ==
    /\ pc \in {"apply_server_side", "server_side_dry_run"}
    /\ Len(results) + Cardinality(inflight) < Len(upgrade_resources)
    /\ Start("server_side_dry_run", <<>>)
    /\ pc' = "server_side_dry_run"
    /\ UNCHANGED <<fnVars, cliVars, pipelineVars>>

\* 3. _apply_server_side: server_side_dry_run for the next resource
ServerSideDryRunCall ==
    /\ pc = "apply_server_side"
    /\ Len(results) < Len(upgrade_resources)
    /\ Start("server_side_dry_run", <<>>)
    /\ pc' = "server_side_dry_run"
    /\ UNCHANGED <<fnVars, cliVars, pipelineVars>>

\* The command returns with this output, which the log of calls keeps.
ReturnOutput(out) ==
    /\ calls' = [calls EXCEPT ![Len(calls)] =
                    [cmd |-> @.cmd, target |-> @.target, ok |-> Some(out.ok), out |-> out]]
    /\ inflight' = inflight \ {Len(calls)}

\* A mutant of ServerSideDryRunReturn: a failed dry-run, or one without a
\* resource, appends nothing.
ServerSideDryRunReturn_no_fallback ==
    /\ pc = "server_side_dry_run"
    /\ LET res == upgrade_resources[Len(results) + 1]
       IN  \E out \in ServerSideOutcomes(res) :
              /\ ReturnOutput(out)
              /\ results' = IF out.ok /\ parse_multi_doc(out) # <<>>
                            THEN Append(results, parse_multi_doc(out)[1]) ELSE results
    /\ pc' = "apply_server_side"
    /\ UNCHANGED <<fnVars, release, chart, server_side, check_crds, crd_policy, live_resources,
                   upgrade_resources, crd_report, output, exit_code, pipelineVars>>

\* The dry-run returns: the first resource of its output, or the resource as
\* rendered when the output holds none or the command failed.
ServerSideDryRunReturn ==
    /\ pc = "server_side_dry_run"
    /\ LET res == upgrade_resources[Len(results) + 1]
       IN  \E out \in ServerSideOutcomes(res) :
              /\ ReturnOutput(out)
              /\ results' = Append(results,
                     IF out.ok /\ parse_multi_doc(out) # <<>>
                     THEN parse_multi_doc(out)[1] ELSE res)
    /\ pc' = "apply_server_side"
    /\ UNCHANGED <<fnVars, release, chart, server_side, check_crds, crd_policy, live_resources,
                   upgrade_resources, crd_report, output, exit_code, pipelineVars>>

\* upgrade_resources = _apply_server_side(upgrade_resources, ns)
ApplyServerSideReturn ==
    /\ pc = "apply_server_side"
    /\ Len(results) = Len(upgrade_resources)
    /\ upgrade_resources' = results
    /\ pc' = "pair"
    /\ UNCHANGED <<fnVars, release, chart, server_side, check_crds, crd_policy, live_resources,
                   results, crd_report, output, exit_code, pipelineVars, calls, inflight>>

\* 4b. With --check-crds the CRD analysis runs; without it crd_report stays None.
RunCrdAnalysis ==
    /\ pc = "pair"
    /\ pc' = IF check_crds THEN "run_crd_pipeline" ELSE "render_output"
    /\ UNCHANGED <<fnVars, cliVars, pipelineVars, calls, inflight>>

\* crd_report = _run_crd_analysis(...)
CrdAnalysisReturn ==
    /\ pc = "return_report"
    /\ crd_report' = Some(report)
    /\ pc' = "render_output"
    /\ UNCHANGED <<fnVars, release, chart, server_side, check_crds, crd_policy, live_resources,
                   upgrade_resources, results, output, exit_code, pipelineVars,
                   calls, inflight>>

\* A mutant of RenderOutput: nothing is rendered when the policy blocks.
RenderOutput_unless_blocked ==
    /\ pc = "render_output"
    /\ output' = IF crd_report # None /\ crd_report[1].policy_result # None
                    /\ crd_report[1].policy_result[1].blocked
                 THEN None ELSE Some([crd_report |-> crd_report])
    /\ pc' = "policy_exit"
    /\ UNCHANGED <<fnVars, release, chart, server_side, check_crds, crd_policy, live_resources,
                   upgrade_resources, results, crd_report, exit_code, pipelineVars,
                   calls, inflight>>

\* 8. Output: render_json or render_terminal, with the crd_report.
RenderOutput ==
    /\ pc = "render_output"
    /\ output' = Some([crd_report |-> crd_report])
    /\ pc' = "policy_exit"
    /\ UNCHANGED <<fnVars, release, chart, server_side, check_crds, crd_policy, live_resources,
                   upgrade_resources, results, crd_report, exit_code, pipelineVars,
                   calls, inflight>>

\* A mutant of PolicyBlocks: any policy result blocks.
PolicyBlocks_any_result ==
    /\ crd_report # None
    /\ crd_report[1].policy_result # None

\* crd_report and crd_report.policy_result and crd_report.policy_result.blocked
PolicyBlocks ==
    /\ crd_report # None
    /\ crd_report[1].policy_result # None
    /\ crd_report[1].policy_result[1].blocked

\* Exit non-zero if CRD policy blocks; else the command returns (exit 0).
PolicyExit ==
    /\ pc = "policy_exit"
    /\ exit_code' = IF PolicyBlocks THEN Some(1) ELSE Some(0)
    /\ pc' = "exited"
    /\ UNCHANGED <<fnVars, release, chart, server_side, check_crds, crd_policy, live_resources,
                   upgrade_resources, results, crd_report, output, pipelineVars,
                   calls, inflight>>

\* ------------------------------------------------------------------------
\* crd/pipeline.py: run_crd_pipeline
\* ------------------------------------------------------------------------

\* One performed step of the pipeline; crd names the CRD of a per-pair step.
Step(step, crd) == [step |-> step, crd |-> crd]

CouldNotRetrieve == "Could not retrieve installed CRDs from cluster"

\* report.policy_result = evaluate_policy(report, policy_mode)
WithPolicy(r, policy_mode) ==
    [r EXCEPT !.policy_result = Some(evaluate_policy(r, policy_mode))]

\* Step 1: the proposed CRDs, from the rendered resources and the chart's crds/.
ExtractProposed ==
    /\ pc = "run_crd_pipeline"
    /\ chart_crds' = IF chart # None THEN extract_crds_from_chart_dir(chart[1].crds_dir)
                     ELSE <<>>
    /\ proposed_crds' = MergeChartCrds(extract_crds_from_resources(upgrade_resources),
                                       chart_crds')
    /\ report' = CrdReport
    /\ steps' = Append(steps, Step("extract", ""))
    /\ pc' = "proposed"
    /\ UNCHANGED <<fnVars, cliVars, installed_crds, installed_relevant, pairs, diff_results,
                   done, detail, calls, inflight>>

\* if not proposed_crds: evaluate the policy on the empty report and return.
ShortCircuit ==
    /\ pc = "proposed"
    /\ proposed_crds = <<>>
    /\ report' = WithPolicy(report, crd_policy)
    /\ steps' = Append(steps, Step("evaluate_policy", ""))
    /\ pc' = "return_report"
    /\ UNCHANGED <<fnVars, cliVars, proposed_crds, chart_crds, installed_crds,
                   installed_relevant, pairs, diff_results, done, detail, calls, inflight>>

\* A mutant of DiscoverCall: the cluster is asked whatever the proposed CRDs.
DiscoverCall_unconditional ==
    /\ pc = "proposed"
    /\ Start("get_crds", <<>>)
    /\ pc' = "get_crds"
    /\ UNCHANGED <<fnVars, cliVars, pipelineVars>>

\* Step 2: discover_cluster_crds starts `kubectl get crds -o yaml`.
DiscoverCall ==
    /\ pc = "proposed"
    /\ proposed_crds # <<>>
    /\ Start("get_crds", <<>>)
    /\ pc' = "get_crds"
    /\ UNCHANGED <<fnVars, cliVars, pipelineVars>>

\* discover_cluster_crds returns; an empty result adds the warning.  (A RunError
\* raised here would unwind out of run_crd_pipeline.)
DiscoverReturn ==
    /\ pc = "get_crds"
    /\ \E out \in GetCrdsOutcomes :
          /\ ReturnOutput(out)
          /\ IF discover_cluster_crds(out).raised
             THEN /\ pc' = "raised"
                  /\ UNCHANGED <<installed_crds, report, steps>>
             ELSE /\ installed_crds' = discover_cluster_crds(out).value
                  /\ report' = IF installed_crds' = <<>>
                               THEN [report EXCEPT !.warnings = Append(@, CouldNotRetrieve)]
                               ELSE report
                  /\ steps' = Append(steps, Step("discover", ""))
                  /\ pc' = "restrict"
    /\ UNCHANGED <<fnVars, cliVars, proposed_crds, chart_crds, installed_relevant, pairs, diff_results,
                   done, detail>>

\* installed_relevant: the installed CRDs that bear a proposed name.
RestrictInstalled ==
    /\ pc = "restrict"
    /\ LET proposed_names == {proposed_crds[i].name : i \in DOMAIN proposed_crds}
       IN  installed_relevant' =
               SelectSeq(installed_crds, LAMBDA r : r.name \in proposed_names)
    /\ steps' = Append(steps, Step("restrict", ""))
    /\ pc' = "pair_crds"
    /\ UNCHANGED <<fnVars, cliVars, proposed_crds, chart_crds, installed_crds, pairs, diff_results, done,
                   detail, report, calls, inflight>>

\* Step 3: pair installed vs proposed.
PairCrds ==
    /\ pc = "pair_crds"
    /\ pairs' = pair_crds(installed_relevant, proposed_crds)
    /\ steps' = Append(steps, Step("pair", ""))
    /\ pc' = "diff_crds"
    /\ UNCHANGED <<fnVars, cliVars, proposed_crds, chart_crds, installed_crds, installed_relevant,
                   diff_results, done, detail, report, calls, inflight>>

\* Step 4: diff the pairs.
DiffCrds ==
    /\ pc = "diff_crds"
    /\ diff_results' = diff_crds(pairs)
    /\ done' = 0
    /\ steps' = Append(steps, Step("diff", ""))
    /\ pc' = "for_pair"
    /\ UNCHANGED <<fnVars, cliVars, proposed_crds, chart_crds, installed_crds, installed_relevant, pairs,
                   detail, report, calls, inflight>>

\* The entry of diff_results at hand, and the name of its CRD.
Entry == diff_results[done + 1]
EntryName == IF Entry.pair.new # None THEN Entry.pair.new[1].name ELSE Entry.pair.old[1].name

\* The loop takes the next entry.  Step 5: classify its changes, if any.
Classify ==
    /\ pc = "for_pair"
    /\ done < Len(diff_results)
    /\ detail' = Some([CrdChangeDetail(EntryName, Entry.pair.status, Entry.changes)
                          EXCEPT !.risk_annotations =
                              IF Entry.changes # <<>>
                              THEN classify_crd_changes(Entry.changes) ELSE @])
    /\ steps' = IF Entry.changes # <<>>
                THEN Append(steps, Step("classify", EntryName)) ELSE steps
    /\ pc' = "ownership"
    /\ UNCHANGED <<fnVars, cliVars, proposed_crds, chart_crds, installed_crds,
                   installed_relevant, pairs, diff_results, done, report, calls, inflight>>

\* Step 7: the ownership of the installed copy, if there is one.
CheckOwnership ==
    /\ pc = "ownership"
    /\ IF Entry.pair.old # None
       THEN /\ detail' = [detail EXCEPT ![1].ownership_conflict =
                             check_crd_ownership(Entry.pair.old[1], release)]
            /\ steps' = Append(steps, Step("ownership", EntryName))
       ELSE UNCHANGED <<detail, steps>>
    /\ pc' = "validate"
    /\ UNCHANGED <<fnVars, cliVars, proposed_crds, chart_crds, installed_crds,
                   installed_relevant, pairs, diff_results, done, report, calls, inflight>>

\* Step 8: _validate_live_crs for a changed CRD, up to the start of
\* `kubectl get <plural>.<group> -A -o yaml`.
ValidateLiveCrs ==
    /\ pc = "validate"
    /\ IF Entry.pair.new # None /\ Entry.pair.status = "changed"
       THEN /\ steps' = Append(steps, Step("validate", EntryName))
            /\ IF Entry.pair.new[1].body.plural = "" \/ Entry.pair.new[1].body.group = ""
               THEN /\ pc' = "stored_version"
                    /\ UNCHANGED <<calls, inflight>>
               ELSE /\ Start("get_cr", <<Entry.pair.new[1].body.plural, ".", Entry.pair.new[1].body.group>>)
                    /\ pc' = "get_cr"
       ELSE /\ pc' = "stored_version"
            /\ UNCHANGED <<steps, calls, inflight>>
    /\ UNCHANGED <<fnVars, cliVars, proposed_crds, chart_crds, installed_crds,
                   installed_relevant, pairs, diff_results, done, detail, report>>

\* The name of the first version with storage, "" when there is none.
RECURSIVE StorageVersion(_)
StorageVersion(versions) ==
    IF versions = <<>> THEN ""
    ELSE IF Head(versions).storage THEN Head(versions).name
    ELSE StorageVersion(Tail(versions))

IsEmptySchema(schema) == schema = None \/ (schema[1].t = "dict" /\ schema[1].pairs = <<>>)

\* _validate_live_crs once the custom resources are fetched.
LiveCrErrors(new_crd, crs) ==
    LET storage_version == StorageVersion(new_crd.body.versions)
        schema == find_schema_for_version(new_crd.body.versions, storage_version)
    IN  IF crs = <<>> THEN <<>>
        ELSE IF storage_version = "" THEN <<>>
        ELSE IF IsEmptySchema(schema) THEN <<>>
        ELSE validate_crs_against_schema(crs, schema[1])

\* fetch_custom_resources returns; the errors, if any, go to the detail.
FetchReturn ==
    /\ pc = "get_cr"
    /\ \E out \in GetCrOutcomes :
          /\ Return(out.ok)
          /\ IF fetch_custom_resources(out).raised
             THEN /\ pc' = "raised"
                  /\ UNCHANGED detail
             ELSE /\ LET errors == LiveCrErrors(Entry.pair.new[1],
                                                fetch_custom_resources(out).value)
                     IN  detail' = IF errors # <<>>
                                   THEN [detail EXCEPT ![1].schema_validation_errors = errors]
                                   ELSE detail
                  /\ pc' = "stored_version"
    /\ UNCHANGED <<fnVars, cliVars, proposed_crds, chart_crds, installed_crds,
                   installed_relevant, pairs, diff_results, done, report, steps>>

\* Step 9: stored-version safety of a changed CRD; then report.crds.append(detail).
CheckStoredVersions ==
    /\ pc = "stored_version"
    /\ IF Entry.pair.old # None /\ Entry.pair.new # None /\ Entry.pair.status = "changed"
       THEN /\ detail' = [detail EXCEPT ![1].stored_version_warnings =
                             check_stored_version_safety(Entry.pair.old[1], Entry.pair.new[1])]
            /\ steps' = Append(steps, Step("stored_version", EntryName))
       ELSE UNCHANGED <<detail, steps>>
    /\ report' = [report EXCEPT !.crds = Append(@, detail'[1])]
    /\ done' = done + 1
    /\ pc' = "for_pair"
    /\ UNCHANGED <<fnVars, cliVars, proposed_crds, chart_crds, installed_crds,
                   installed_relevant, pairs, diff_results, calls, inflight>>

\* Step 6: the new CRDs, once the loop is over.
DetectNew ==
    /\ pc = "for_pair"
    /\ done = Len(diff_results)
    /\ report' = [report EXCEPT !.new_crds = detect_new_crds(installed_relevant, proposed_crds)]
    /\ steps' = Append(steps, Step("detect_new", ""))
    /\ pc' = "evaluate_policy"
    /\ UNCHANGED <<fnVars, cliVars, proposed_crds, chart_crds, installed_crds,
                   installed_relevant, pairs, diff_results, done, detail, calls, inflight>>

\* A mutant of EvaluatePolicy: the policy is evaluated, and the report returned,
\* from inside the loop over the pairs.
EvaluatePolicy_inside_loop ==
    /\ pc = "for_pair"
    /\ report' = WithPolicy(report, crd_policy)
    /\ steps' = Append(steps, Step("evaluate_policy", ""))
    /\ pc' = "return_report"
    /\ UNCHANGED <<fnVars, cliVars, proposed_crds, chart_crds, installed_crds,
                   installed_relevant, pairs, diff_results, done, detail, calls, inflight>>

\* Step 10: the policy, on the report as assembled; then the report is returned.
EvaluatePolicy ==
    /\ pc = "evaluate_policy"
    /\ report' = WithPolicy(report, crd_policy)
    /\ steps' = Append(steps, Step("evaluate_policy", ""))
    /\ pc' = "return_report"
    /\ UNCHANGED <<fnVars, cliVars, proposed_crds, chart_crds, installed_crds,
                   installed_relevant, pairs, diff_results, done, detail, calls, inflight>>

\* No run of the command: the state in which a function is called on its own.
NoRun ==
    /\ pc = "idle"
    /\ release = ""
    /\ chart = None
    /\ server_side = FALSE
    /\ check_crds = FALSE
    /\ crd_policy = "warn"
    /\ live_resources = <<>>
    /\ upgrade_resources = <<>>
    /\ results = <<>>
    /\ crd_report = None
    /\ output = None
    /\ exit_code = None
    /\ proposed_crds = <<>>
    /\ chart_crds = <<>>
    /\ installed_crds = <<>>
    /\ installed_relevant = <<>>
    /\ pairs = <<>>
    /\ diff_results = <<>>
    /\ done = 0
    /\ detail = None
    /\ report = CrdReport
    /\ calls = <<>>
    /\ inflight = {}
    /\ steps = <<>>

\* ------------------------------------------------------------------------
\* output/terminal.py
\* ------------------------------------------------------------------------

\* RiskLevel.<level>.value: the lower-case name of the level, the key of
\* risk_summary in the JSON output (json_out.py reads risk_counts["safe"] from a
\* dict keyed by level.value).  A str, here the sequence of its code points.
LevelValue(level) ==
    CASE level = SAFE -> <<115, 97, 102, 101>>                      \* "safe"
      [] level = WARNING -> <<119, 97, 114, 110, 105, 110, 103>>    \* "warning"
      [] level = DANGER -> <<100, 97, 110, 103, 101, 114>>          \* "danger"

\* a < b on two str: the comparison of Python, code point by code point.
RECURSIVE StrLess(_, _)
StrLess(a, b) ==
    IF a = <<>> THEN b # <<>>
    ELSE IF b = <<>> THEN FALSE
    ELSE IF Head(a) # Head(b) THEN Head(a) < Head(b)
    ELSE StrLess(Tail(a), Tail(b))

\* max(values) of a non-empty list of str.
RECURSIVE StrMax(_)
StrMax(values) ==
    IF Len(values) = 1 THEN values[1]
    ELSE LET best == StrMax(SubSeq(values, 1, Len(values) - 1))
             last == values[Len(values)]
         IN  IF StrLess(best, last) THEN last ELSE best

\* _render_field_change, the risk marker of the field.
risk_marker(fc, risk_annotations) ==
    LET field_risks == SelectSeq(risk_annotations, LAMBDA a : a.path = fc.path)
    IN  IF field_risks = <<>> THEN ""
        ELSE LET max_level == StrMax([i \in DOMAIN field_risks |->
                                          LevelValue(field_risks[i].level)])
             IN  IF max_level = LevelValue(DANGER) THEN " !!"
                 ELSE IF max_level = LevelValue(WARNING) THEN " !"
                 ELSE ""

\* The first line _render_field_change appends for a field change:
\* "  <sign> <path><note><risk_marker>\n".
FieldLine(sign, path, note, marker) ==
    [sign |-> sign, path |-> path, note |-> note, risk_marker |-> marker]

\* _render_field_change: the line of the field (the lines of the old and new
\* values, which follow it, are left out); nothing for another change type.
_render_field_change(fc, risk_annotations) ==
    LET marker == risk_marker(fc, risk_annotations)
    IN  CASE fc.change_type = "value_changed" -> Some(FieldLine("~", fc.path, "", marker))
          [] fc.change_type = "type_changed" ->
                 Some(FieldLine("~", fc.path, " (type changed)", marker))
          [] fc.change_type = "item_added" -> Some(FieldLine("+", fc.path, "", marker))
          [] fc.change_type = "item_removed" -> Some(FieldLine("-", fc.path, "", marker))
          [] OTHER -> None

\* _max_risk: the level of the resource's badge, None without annotations.
_max_risk(annotations) ==
    IF annotations = <<>> THEN None ELSE Some(MaxByOrder(annotations).level)

\* ########################################################################
\* Inputs, specifications and properties
\* ########################################################################

\* ------------------------------------------------------------------------
\* The FieldChanges the classifier is run on
\* ------------------------------------------------------------------------

MaxChanges == 2

SchemaRoot == <<W("spec"), Ix("versions", "0"), W("schema"), W("openAPIV3Schema")>>

\* Schema nodes below the root: the root itself, a property, a nested property, a
\* nested property whose name starts with `required`, the items of an array.
SchemaNodes ==
    { <<>>,
      <<W("properties"), W("spec")>>,
      <<W("properties"), W("spec"), W("properties"), W("color")>>,
      <<W("properties"), W("spec"), W("properties"), <<"required", "Fields">>>>,
      <<W("properties"), W("spec"), W("items"), W("properties"), W("size")>> }

\* What may change at a schema node.
SchemaTails ==
    { <<>>,
      <<W("type")>>, <<W("default")>>, <<W("pattern")>>, <<W("minimum")>>,
      <<W("maximum")>>, <<W("enum")>>, <<Ix("enum", "1")>>, <<W("required")>>,
      <<Ix("required", "0")>>, <<W("description")>>, <<W("properties"), W("nickname")>>,
      <<W("properties"), W("nickname"), W("type")>> }

SchemaPaths == {Dot(SchemaRoot \o n \o t) : n \in SchemaNodes, t \in SchemaTails}

OtherPaths ==
    { Dot(<<W("metadata"), W("annotations"), W("note")>>),
      Dot(<<W("metadata"), W("labels"), W("app")>>),
      Dot(<<W("metadata"), W("labels")>>),
      Dot(<<W("metadata"), W("name")>>),
      Dot(<<W("spec"), Ix("versions", "0")>>),
      Dot(<<W("spec"), <<"versions", "[", "1", "0", "]">>>>),
      Dot(<<W("spec"), Ix("versions", "1"), W("name")>>),
      Dot(<<W("spec"), Ix("versions", "1"), W("storage")>>),
      Dot(<<W("spec"), Ix("versions", "0"), W("additionalPrinterColumns")>>),
      Dot(<<W("spec"), Ix("versions", "0"), Ix("additionalPrinterColumns", "0"), W("name")>>),
      Dot(<<W("spec"), Ix("versions", "0"), W("schema"), W("required")>>),
      Dot(<<W("spec"), Ix("versions", "0"), W("schema")>>),
      Dot(<<W("spec"), W("scope")>>),
      Dot(<<W("spec"), W("group")>>),
      Dot(<<W("spec"), W("names"), W("plural")>>),
      Dot(<<W("spec"), W("conversion"), W("strategy")>>),
      Dot(<<W("spec"), W("conversion"), W("webhook"), W("clientConfig"), W("url")>>),
      Dot(<<W("spec"), W("conversion"), W("webhook")>>),
      Dot(<<W("status"), W("properties"), W("spec"), W("type")>>) }

CrdPaths == SchemaPaths \cup OtherPaths

AllFieldChanges == {FieldChange(p, t) : p \in CrdPaths, t \in ChangeTypes}

\* The changes lists of several changes are drawn from: one change per family of
\* rules, and two that get the same rule.
ListFieldChanges ==
    { FieldChange(Dot(<<W("metadata"), W("labels"), W("app")>>), "value_changed"),
      FieldChange(Dot(<<W("spec"), Ix("versions", "0")>>), "item_removed"),
      FieldChange(Dot(<<W("spec"), Ix("versions", "0")>>), "item_added"),
      FieldChange(Dot(<<W("spec"), W("scope")>>), "value_changed"),
      FieldChange(Dot(<<W("spec"), W("group")>>), "value_changed"),
      FieldChange(Dot(<<W("spec"), W("names"), W("plural")>>), "value_changed"),
      FieldChange(Dot(SchemaRoot \o <<W("properties"), W("spec"), W("required")>>), "item_added") }

ClassifyInputs ==
    {<<fc>> : fc \in AllFieldChanges} \cup SeqsUpTo(ListFieldChanges, MaxChanges)

\* ------------------------------------------------------------------------
\* The harness: a pure function is called on arguments drawn from a bounded set
\* ------------------------------------------------------------------------

NoResult == <<>>

InitClassify ==
    /\ args \in {[fn |-> "classify_crd_changes", changes |-> cs] : cs \in ClassifyInputs}
    /\ result = NoResult
    /\ fpc = "input"
    /\ NoRun

CallClassify ==
    /\ fpc = "input"
    /\ args.fn = "classify_crd_changes"
    /\ result' = classify_crd_changes(args.changes)
    /\ fpc' = "returned"
    /\ UNCHANGED <<args, runVars>>

Classified == fpc = "returned" /\ args.fn = "classify_crd_changes"

vars == <<args, result, fpc, runVars>>

SpecClassify == InitClassify /\ [][CallClassify]_vars

\* ------------------------------------------------------------------------
\* C3
\* ------------------------------------------------------------------------

\* A list with its elements i and j exchanged.
Swap(s, i, j) == [k \in DOMAIN s |-> IF k = i THEN s[j] ELSE IF k = j THEN s[i] ELSE s[k]]

\* C3: classify_crd_changes returns exactly one annotation per input change, in
\* input order, annotation i carrying the path of change i; the annotation of a
\* change is the one the change gets when classified alone, and exchanging two
\* changes of the input exchanges their annotations and changes nothing else.
C3_PerChange ==
    Classified =>
        /\ Len(result) = Len(args.changes)
        /\ \A i \in DOMAIN args.changes :
              /\ result[i].path = args.changes[i].path
              /\ result[i].level \in RiskLevel
              /\ <<result[i]>> = classify_crd_changes(<<args.changes[i]>>)
        /\ \A i, j \in DOMAIN args.changes :
              classify_crd_changes(Swap(args.changes, i, j)) = Swap(result, i, j)

\* Two changes that get the same rule were classified, then a third of another rule
\* or nothing.
C3_Witness ==
    /\ Classified
    /\ Len(args.changes) >= 2
    /\ result[1].rule = result[2].rule
    /\ args.changes[1] # args.changes[2]

\* ------------------------------------------------------------------------
\* C4: the rule table of spec section 4.5.3, written from the spec
\* ------------------------------------------------------------------------

\* The `...` of the table's schema rows: the path of a version's schema and
\* anything below it, spec\.versions\[\d+\]\.schema\..*
TVersion == <<Lit("spec"), Lit("."), Lit("versions"), Lit("["), DigitsPlus, Lit("]")>>
TSchema == TVersion \o <<Lit("."), Lit("schema"), Lit("."), AnyStar>>
TProperty == TSchema \o <<Lit("."), Lit("properties"), Lit("."), WordPlus>>
TRequired == Re(TSchema \o <<Lit("."), Lit("required")>>, FALSE)

TableRows == 1..18

TableLevel ==
    <<SAFE, SAFE, SAFE, SAFE, DANGER, DANGER, DANGER, DANGER, DANGER, DANGER,
      WARNING, WARNING, WARNING, WARNING, WARNING, SAFE, DANGER, WARNING>>

TableRule ==
    <<"crd_metadata_change", "crd_printer_columns", "crd_version_added",
      "crd_optional_property_added", "crd_version_removed", "crd_required_field_added",
      "crd_property_removed", "crd_type_changed", "crd_scope_changed",
      "crd_conversion_strategy_changed", "crd_default_changed", "crd_pattern_changed",
      "crd_range_changed", "crd_enum_changed", "crd_webhook_changed",
      "crd_required_field_removed", "crd_required_changed", "crd_unknown_change">>

\* Row n's path regex and change_type predicate.  A regex written with ^ is
\* anchored at the start, one written with $ at the end, the others match anywhere.
TableMatches(n, fc) ==
    LET p == fc.path
        ct == fc.change_type
    IN  CASE n = 1 -> re_match(Re(<<Lit("metadata"), Lit("."), Alt({"annotations", "labels"}),
                                   Lit(".")>>, FALSE), p)
          [] n = 2 -> re_search(Re(TVersion \o <<Lit("."), Lit("additionalPrinterColumns")>>, FALSE), p)
          [] n = 3 -> re_match(Re(TVersion, TRUE), p) /\ ct = "item_added"
          [] n = 4 -> /\ re_search(Re(TVersion \o <<Lit("."), Lit("schema"), Lit("."),
                                        Lit("openAPIV3Schema"), Lit("."), Lit("properties"),
                                        Lit("."), WordPlus, Lit("."), Lit("properties"),
                                        Lit("."), WordPlus>>, FALSE), p)
                      /\ ct = "item_added"
                      /\ ~re_search(Re(<<Lit("."), Lit("required")>>, FALSE), p)
          [] n = 5 -> re_match(Re(TVersion, TRUE), p) /\ ct = "item_removed"
          [] n = 6 -> re_search(TRequired, p) /\ ct = "item_added"
          [] n = 7 -> re_search(Re(TProperty, TRUE), p) /\ ct = "item_removed"
          [] n = 8 -> re_search(Re(TProperty \o <<Lit("."), Lit("type")>>, TRUE), p)
                      /\ ct = "value_changed"
          [] n = 9 -> p = <<"spec", ".", "scope">> /\ ct = "value_changed"
          [] n = 10 -> p = <<"spec", ".", "conversion", ".", "strategy">> /\ ct = "value_changed"
          [] n = 11 -> re_search(Re(TProperty \o <<Lit("."), Lit("default")>>, TRUE), p)
                       /\ ct = "value_changed"
          [] n = 12 -> re_search(Re(TProperty \o <<Lit("."), Lit("pattern")>>, TRUE), p)
                       /\ ct = "value_changed"
          [] n = 13 -> re_search(Re(TProperty \o <<Lit("."), Alt({"minimum", "maximum"})>>, TRUE), p)
                       /\ ct = "value_changed"
          [] n = 14 -> re_search(Re(TProperty \o <<Lit("."), Lit("enum")>>, FALSE), p)
          [] n = 15 -> re_match(Re(<<Lit("spec"), Lit("."), Lit("conversion"), Lit("."),
                                     Lit("webhook"), Lit(".")>>, FALSE), p)
          [] n = 16 -> re_search(TRequired, p) /\ ct = "item_removed"
          [] n = 17 -> re_search(TRequired, p) /\ ct = "value_changed"
          [] n = 18 -> TRUE

\* The first row, in the order 1 to 18, that the change satisfies.
TableFirstRow(fc) ==
    CHOOSE n \in TableRows : TableMatches(n, fc) /\ \A m \in 1..(n - 1) : ~TableMatches(m, fc)

MaxReportCrds == 2

CrdNames == <<"widgets.example.com", "gadgets.example.com", "gizmos.example.com",
              "doodads.example.com">>

\* One annotation of each level, as the classifier produces them.
SampleAnnotations ==
    { _classify_single(FieldChange(Dot(<<W("metadata"), W("labels"), W("app")>>), "value_changed")),
      _classify_single(FieldChange(Dot(<<W("spec"), W("group")>>), "value_changed")),
      _classify_single(FieldChange(Dot(<<W("spec"), W("scope")>>), "value_changed")) }

\* The reports: at most MaxReportCrds CRDs of distinct names, each with at most
\* MaxChanges annotations.
PolicyReports ==
    { [CrdReport EXCEPT !.crds =
           [i \in 1..k |-> [CrdChangeDetail(CrdNames[i], "changed", <<>>)
                               EXCEPT !.risk_annotations = anns[i]]]] :
        k \in 0..MaxReportCrds,
        anns \in [1..MaxReportCrds -> SeqsUpTo(SampleAnnotations, MaxChanges)] }

InitPolicy ==
    /\ args \in {[fn |-> "evaluate_policy", report |-> r, mode |-> m] :
                    r \in PolicyReports, m \in PolicyModes}
    /\ result = NoResult
    /\ fpc = "input"
    /\ NoRun

CallPolicy ==
    /\ fpc = "input"
    /\ args.fn = "evaluate_policy"
    /\ result' = evaluate_policy(args.report, args.mode)
    /\ fpc' = "returned"
    /\ UNCHANGED <<args, runVars>>

PolicyEvaluated == fpc = "returned" /\ args.fn = "evaluate_policy"

SpecPolicy == InitPolicy /\ [][CallPolicy]_vars

\* Some annotation of the CRD is of level DANGER.
HasDangerAnnotation(crd) ==
    \E i \in DOMAIN crd.risk_annotations : crd.risk_annotations[i].level = DANGER

\* C1: evaluate_policy blocks exactly when the mode is fail and some CRD of the
\* report is at DANGER; ignore and warn never block; exit_code is 1 exactly when
\* blocked and 0 otherwise.
C1_PolicyBlocks ==
    PolicyEvaluated =>
        LET danger == \E i \in DOMAIN args.report.crds :
                          HasDangerAnnotation(args.report.crds[i])
        IN  /\ result.blocked <=> (args.mode = "fail" /\ danger)
            /\ args.mode \in {"ignore", "warn"} => ~result.blocked
            /\ (\A i \in DOMAIN args.report.crds :
                    ~HasDangerAnnotation(args.report.crds[i])) => ~result.blocked
            /\ result.exit_code = (IF result.blocked THEN 1 ELSE 0)
            /\ result.mode = args.mode

\* fail blocked on a report whose dangerous CRD has a lesser annotation after the
\* DANGER one, next to a CRD that is not dangerous.
C1_Witness ==
    /\ PolicyEvaluated
    /\ args.mode = "fail"
    /\ result.blocked
    /\ result.exit_code = 1
    /\ \E i \in DOMAIN args.report.crds :
          LET a == args.report.crds[i].risk_annotations
          IN  Len(a) = 2 /\ a[1].level = DANGER /\ a[2].level = SAFE
    /\ \E i \in DOMAIN args.report.crds : ~HasDangerAnnotation(args.report.crds[i])

\* ------------------------------------------------------------------------
\* check_stored_version_safety on bounded CRDs
\* ------------------------------------------------------------------------

MaxStored == 2
MaxVersions == 2

\* Version names in a cluster's status.storedVersions.
VersionNames == {"v1", "v1beta1", "v2"}

\* The name of a proposed version: one of these, or "" (no name key).
ProposedVersionNames == VersionNames \cup {""}

StoredCrd(status) ==
    Resource("CustomResourceDefinition", CrdNames[1],
             CrdBody("example.com", "widgets", "Widget", "Namespaced",
                     <<Version("v1", TRUE, None)>>, status, Unowned))

ProposedCrd(names) ==
    Resource("CustomResourceDefinition", CrdNames[1],
             CrdBody("example.com", "widgets", "Widget", "Namespaced",
                     [i \in DOMAIN names |-> Version(names[i], i = 1, None)], None, Unowned))

InitStored ==
    /\ args \in {[fn |-> "check_stored_version_safety", old_crd |-> StoredCrd(st),
                  new_crd |-> ProposedCrd(ns)] :
                    st \in {None} \cup {Status(sv) : sv \in SeqsUpTo(VersionNames, MaxStored)},
                    ns \in SeqsUpTo(ProposedVersionNames, MaxVersions)}
    /\ result = NoResult
    /\ fpc = "input"
    /\ NoRun

CallStored ==
    /\ fpc = "input"
    /\ args.fn = "check_stored_version_safety"
    /\ result' = check_stored_version_safety(args.old_crd, args.new_crd)
    /\ fpc' = "returned"
    /\ UNCHANGED <<args, runVars>>

StoredChecked == fpc = "returned" /\ args.fn = "check_stored_version_safety"

SpecStored == InitStored /\ [][CallStored]_vars

\* The storedVersions of the installed CRD (none when the status or the list is
\* absent) and the names of the proposed versions.
StoredOf(crd) == IF crd.body.status = None THEN <<>> ELSE crd.body.status[1].storedVersions
NamedVersions(crd) ==
    {crd.body.versions[i].name : i \in {j \in DOMAIN crd.body.versions :
                                           crd.body.versions[j].name # ""}}

\* C8: the result holds one warning, naming sv, for each entry sv of
\* old.status.storedVersions that names no version of new.spec.versions, in
\* storedVersions order, and nothing else; it is non-empty exactly when some stored
\* version is missing, and empty when storedVersions is absent or empty.
C8_StoredVersionWarnings ==
    StoredChecked =>
        LET stored == StoredOf(args.old_crd)
            names == NamedVersions(args.new_crd)
            missing == SelectSeq(stored, LAMBDA sv : sv \notin names)
        IN  /\ Len(result) = Len(missing)
            /\ \A i \in DOMAIN missing : result[i] = StoredVersionWarning(missing[i])
            /\ (result # <<>>) <=> (\E i \in DOMAIN stored : stored[i] \notin names)
            /\ stored = <<>> => result = <<>>

\* Two stored versions, the first still proposed and the second not: one warning,
\* naming the second.
C8_Witness ==
    /\ StoredChecked
    /\ Len(StoredOf(args.old_crd)) = 2
    /\ StoredOf(args.old_crd)[1] \in NamedVersions(args.new_crd)
    /\ StoredOf(args.old_crd)[2] \notin NamedVersions(args.new_crd)
    /\ StoredOf(args.old_crd)[2] = args.old_crd.body.versions[1].name
    /\ Len(result) = 1
    /\ result[1].sv = StoredOf(args.old_crd)[2]


\* ------------------------------------------------------------------------
\* Runs of run_crd_pipeline and of the diff command
\* ------------------------------------------------------------------------

\* No function is called on its own during a run.
NoCall ==
    /\ args = [fn |-> "none"]
    /\ result = NoResult
    /\ fpc = "idle"

MaxResources == 2

\* The resources run_crd_pipeline may be given.
PipelineResources == {Deployment, SameWidgets, NewWidgets, WidgetsNoStorage, Gadgets}

\* run_crd_pipeline(upgrade_resources, chart_path, policy_mode, release_name)
InitPipeline ==
    /\ NoCall
    /\ pc = "run_crd_pipeline"
    /\ release = "shop"
    /\ chart \in {Some(c) : c \in Charts}
    /\ server_side = FALSE
    /\ check_crds = TRUE
    /\ crd_policy \in PolicyModes
    /\ live_resources = <<>>
    /\ upgrade_resources \in SeqsUpTo(PipelineResources, MaxResources)
    /\ results = <<>>
    /\ crd_report = None
    /\ output = None
    /\ exit_code = None
    /\ proposed_crds = <<>>
    /\ chart_crds = <<>>
    /\ installed_crds = <<>>
    /\ installed_relevant = <<>>
    /\ pairs = <<>>
    /\ diff_results = <<>>
    /\ done = 0
    /\ detail = None
    /\ report = CrdReport
    /\ calls = <<>>
    /\ inflight = {}
    /\ steps = <<>>

PipelineNext ==
    \/ ExtractProposed
    \/ ShortCircuit
    \/ DiscoverCall
    \/ DiscoverReturn
    \/ RestrictInstalled
    \/ PairCrds
    \/ DiffCrds
    \/ Classify
    \/ CheckOwnership
    \/ ValidateLiveCrs
    \/ FetchReturn
    \/ CheckStoredVersions
    \/ DetectNew
    \/ EvaluatePolicy

SpecPipeline == InitPipeline /\ [][PipelineNext]_vars

\* helm-preview diff RELEASE CHART [--server-side] [--check-crds] [--crd-policy MODE]
InitDiff ==
    /\ NoCall
    /\ pc = "diff"
    /\ release = "shop"
    /\ chart \in {Some(c) : c \in Charts}
    /\ server_side \in BOOLEAN
    /\ check_crds \in BOOLEAN
    /\ crd_policy \in PolicyModes
    /\ live_resources = <<>>
    /\ upgrade_resources = <<>>
    /\ results = <<>>
    /\ crd_report = None
    /\ output = None
    /\ exit_code = None
    /\ proposed_crds = <<>>
    /\ chart_crds = <<>>
    /\ installed_crds = <<>>
    /\ installed_relevant = <<>>
    /\ pairs = <<>>
    /\ diff_results = <<>>
    /\ done = 0
    /\ detail = None
    /\ report = CrdReport
    /\ calls = <<>>
    /\ inflight = {}
    /\ steps = <<>>

DiffNext ==
    \/ GetManifestCall
    \/ GetManifestReturn
    \/ DryRunUpgradeCall
    \/ DryRunUpgradeReturn
    \/ ServerSideDryRunCall
    \/ ServerSideDryRunReturn
    \/ ApplyServerSideReturn
    \/ RunCrdAnalysis
    \/ ExtractProposed
    \/ ShortCircuit
    \/ DiscoverCall
    \/ DiscoverReturn
    \/ RestrictInstalled
    \/ PairCrds
    \/ DiffCrds
    \/ Classify
    \/ CheckOwnership
    \/ ValidateLiveCrs
    \/ FetchReturn
    \/ CheckStoredVersions
    \/ DetectNew
    \/ EvaluatePolicy
    \/ CrdAnalysisReturn
    \/ RenderOutput
    \/ PolicyExit

SpecDiff == InitDiff /\ [][DiffNext]_vars

\* The place of a step in the order of section 4.5.9; the per-pair steps share
\* one place and have their own order inside a pair.
PairSteps == <<"classify", "ownership", "validate", "stored_version">>

StepOrder ==
    <<{"extract"}, {"discover"}, {"restrict"}, {"pair"}, {"diff"}, Range(PairSteps),
      {"detect_new"}, {"evaluate_policy"}>>

StepRank(step) == CHOOSE k \in DOMAIN StepOrder : step \in StepOrder[k]
PairStepRank(step) == CHOOSE k \in DOMAIN PairSteps : PairSteps[k] = step

NameOfEntry(e) == IF e.pair.new # None THEN e.pair.new[1].name ELSE e.pair.old[1].name
EntryIndex(crd) == CHOOSE k \in DOMAIN diff_results : NameOfEntry(diff_results[k]) = crd

Performed(step, crd) == \E i \in DOMAIN steps : steps[i] = Step(step, crd)

PipelineReturned == pc = "return_report"

\* C5: the steps of a run with a proposed CRD are performed in the order extract,
\* discover, restrict, pair, diff, then per pair (in the order of the pairs)
\* classify, ownership, validate, stored-version, then detect-new, then
\* evaluate-policy; validation only for a changed CRD; and when the pipeline
\* returns every step is done and the policy result is the one of the report as
\* assembled.
C5_StepsInOrder ==
    /\ \A i, j \in DOMAIN steps :
          i < j =>
             /\ StepRank(steps[i].step) <= StepRank(steps[j].step)
             /\ StepRank(steps[i].step) = StepRank(steps[j].step) =>
                   /\ steps[i].step \in Range(PairSteps)
                   /\ EntryIndex(steps[i].crd) <= EntryIndex(steps[j].crd)
                   /\ steps[i].crd = steps[j].crd =>
                         PairStepRank(steps[i].step) < PairStepRank(steps[j].step)
    /\ \A i \in DOMAIN steps :
          steps[i].step = "validate" =>
             diff_results[EntryIndex(steps[i].crd)].pair.status = "changed"
    /\ (PipelineReturned /\ proposed_crds # <<>>) =>
          /\ \A step \in {"extract", "discover", "restrict", "pair", "diff",
                          "detect_new", "evaluate_policy"} : Performed(step, "")
          /\ \A k \in DOMAIN diff_results :
                LET e == diff_results[k]
                IN  /\ Performed("classify", NameOfEntry(e)) <=> e.changes # <<>>
                    /\ Performed("ownership", NameOfEntry(e)) <=> e.pair.old # None
                    /\ Performed("validate", NameOfEntry(e)) <=> e.pair.status = "changed"
                    /\ Performed("stored_version", NameOfEntry(e)) <=> e.pair.status = "changed"
          /\ Len(report.crds) = Len(diff_results)
          /\ report.new_crds = detect_new_crds(installed_relevant, proposed_crds)
          /\ report.policy_result =
                Some(evaluate_policy([report EXCEPT !.policy_result = None], crd_policy))

\* A run returns after a changed CRD and an added one went through the loop.
C5_Witness ==
    /\ PipelineReturned
    /\ Len(diff_results) = 2
    /\ diff_results[1].pair.status = "changed"
    /\ diff_results[2].pair.status = "added"
    /\ Performed("validate", NameOfEntry(diff_results[1]))
    /\ Len(steps) = 11

\* Extraction is over and found no CRD, in the rendered resources or in crds/.
NoProposedCrd ==
    /\ pc # "run_crd_pipeline"
    /\ extract_crds_from_resources(upgrade_resources) = <<>>
    /\ chart_crds = <<>>

\* C6: without a proposed CRD the pipeline goes from extraction straight to its
\* return, makes no cluster call, and returns the empty report (no crds, no
\* new_crds, no warnings) with the policy evaluated for the requested mode.
C6_ShortCircuit ==
    NoProposedCrd =>
       /\ pc \in {"proposed", "return_report"}
       /\ calls = <<>>
       /\ inflight = {}
       /\ PipelineReturned =>
             /\ report.crds = <<>>
             /\ report.new_crds = <<>>
             /\ report.warnings = <<>>
             /\ report.policy_result = Some(evaluate_policy(CrdReport, crd_policy))
             /\ report.policy_result[1].mode = crd_policy
             /\ steps = <<Step("extract", ""), Step("evaluate_policy", "")>>

\* A run given one resource that is not a CRD, with a chart without crds/, returns.
C6_Witness ==
    /\ PipelineReturned
    /\ NoProposedCrd
    /\ upgrade_resources = <<Deployment>>
    /\ report.policy_result # None

\* The external commands, in the order of the contract.
CallOrder == <<"get_manifest", "dry_run_upgrade", "server_side_dry_run", "get_crds", "get_cr">>

CallRank(cmd) == CHOOSE k \in DOMAIN CallOrder : CallOrder[k] = cmd

Called(cmd) == \E i \in DOMAIN calls : calls[i].cmd = cmd

\* C7: the external calls of a run are made one at a time (a call starts only
\* when every earlier one has returned) and in the order get_manifest,
\* dry_run_upgrade, the server-side dry-runs (only with --server-side), get crds,
\* the custom-resource fetches; the first two and get crds at most once.
C7_CallsInOrder ==
    /\ Cardinality(inflight) <= 1
    /\ \A i \in DOMAIN calls : calls[i].ok = None <=> i \in inflight
    /\ \A i \in inflight : i = Len(calls)
    /\ \A i, j \in DOMAIN calls :
          i < j =>
             /\ CallRank(calls[i].cmd) <= CallRank(calls[j].cmd)
             /\ calls[i].cmd = calls[j].cmd => calls[i].cmd \in {"server_side_dry_run", "get_cr"}
    /\ Called("dry_run_upgrade") => calls[1] = [cmd |-> "get_manifest", target |-> <<>>, ok |-> Some(TRUE)]
    /\ Called("server_side_dry_run") => server_side /\ calls[2].cmd = "dry_run_upgrade"
    /\ Called("get_cr") => Called("get_crds")

\* A run with --server-side and --check-crds that made every kind of call.
C7_Witness ==
    /\ pc = "exited"
    /\ \A k \in DOMAIN CallOrder : Called(CallOrder[k])
    /\ Len(calls) = 6
    /\ inflight = {}

\* get_manifest or dry_run_upgrade failed with a RunError.
PrimaryFailed ==
    \E i \in DOMAIN calls :
       calls[i].cmd \in {"get_manifest", "dry_run_upgrade"} /\ calls[i].ok = Some(FALSE)

\* Some other command (a server-side dry-run, get crds, a fetch) failed.
SecondaryFailed ==
    \E i \in DOMAIN calls :
       calls[i].cmd \notin {"get_manifest", "dry_run_upgrade"} /\ calls[i].ok = Some(FALSE)

\* The CRD analysis ran and its policy result blocks.
Blocked ==
    /\ crd_report # None
    /\ crd_report[1].policy_result # None
    /\ crd_report[1].policy_result[1].blocked

Exited == pc = "exited"

\* C2: the diff command exits with 1 exactly when get_manifest or
\* dry_run_upgrade failed or the CRD analysis ran and its policy result blocks,
\* and with 0 otherwise: always under warn or ignore, and always without
\* --check-crds (when no CRD analysis runs), unless a primary command failed.
C2_ExitCodes ==
    Exited =>
       /\ exit_code \in {Some(0), Some(1)}
       /\ exit_code = Some(1) <=> (PrimaryFailed \/ Blocked)
       /\ (~PrimaryFailed /\ crd_policy \in {"warn", "ignore"}) => exit_code = Some(0)
       /\ (~PrimaryFailed /\ ~check_crds) => (exit_code = Some(0) /\ crd_report = None)
       /\ (~PrimaryFailed /\ check_crds) => crd_report # None
       /\ PrimaryFailed => (crd_report = None /\ output = None)

\* A run exits with 1 on a block although no primary command failed, a custom
\* resource fetch having failed on the way.
C2_Witness ==
    /\ Exited
    /\ exit_code = Some(1)
    /\ ~PrimaryFailed
    /\ SecondaryFailed
    /\ Blocked

\* The places of a run of run_crd_pipeline from which it goes on or returns; a
\* RunError that nothing catches would leave them (pc = "raised").
PipelineLabels ==
    {"run_crd_pipeline", "proposed", "get_crds", "restrict", "pair_crds", "diff_crds",
     "for_pair", "ownership", "validate", "get_cr", "stored_version",
     "evaluate_policy", "return_report"}

\* `kubectl get crds` failed with a RunError.
DiscoveryFailed ==
    \E i \in DOMAIN calls : calls[i].cmd = "get_crds" /\ calls[i].ok = Some(FALSE)

\* The report returned was made against an empty installed set: it has the
\* warning, every proposed CRD is reported as added and as new, nothing else is
\* reported, and the policy is evaluated.
RecoveredFromDiscovery ==
    /\ CouldNotRetrieve \in Range(report.warnings)
    /\ installed_crds = <<>>
    /\ \A i \in DOMAIN proposed_crds :
          /\ \E k \in DOMAIN report.crds :
                report.crds[k].name = proposed_crds[i].name /\ report.crds[k].status = "added"
          /\ \E k \in DOMAIN report.new_crds : report.new_crds[k].name = proposed_crds[i].name
    /\ \A k \in DOMAIN report.crds : report.crds[k].status = "added"
    /\ report.policy_result # None

\* C9: when `get crds` fails the pipeline goes on (the RunError does not
\* unwind), with the warning in report.warnings and an empty installed set, and
\* the report it returns has every proposed CRD with status added and as a new
\* CRD, and the policy evaluated.
C9_DiscoveryFailureRecovers ==
    DiscoveryFailed =>
       /\ pc \in PipelineLabels \ {"run_crd_pipeline", "proposed", "get_crds"}
       /\ CouldNotRetrieve \in Range(report.warnings)
       /\ installed_crds = <<>>
       /\ installed_relevant = <<>>
       /\ done <= Len(diff_results)
       /\ PipelineReturned => RecoveredFromDiscovery

\* A run with two proposed CRDs has returned after a failed discovery.
C9_Witness ==
    /\ DiscoveryFailed
    /\ PipelineReturned
    /\ RecoveredFromDiscovery
    /\ Len(proposed_crds) = 2
    /\ Len(report.new_crds) = 2

\* The fetch of the custom resources of the CRD of this entry failed.
FetchFailedFor(e) ==
    /\ e.pair.new # None
    /\ \E i \in DOMAIN calls :
          /\ calls[i].cmd = "get_cr"
          /\ calls[i].target = <<e.pair.new[1].body.plural, ".", e.pair.new[1].body.group>>
          /\ calls[i].ok = Some(FALSE)

\* The entry of the report for a CRD whose fetch failed has no schema validation
\* error and holds the changes, their annotations, the ownership conflict and
\* the stored-version warnings of the CRD.
ReportedDespiteFailedFetch(k) ==
    LET e == diff_results[k]
        d == report.crds[k]
    IN  FetchFailedFor(e) =>
           /\ d.name = NameOfEntry(e)
           /\ d.status = "changed"
           /\ d.schema_validation_errors = <<>>
           /\ d.changes = e.changes
           /\ d.changes # <<>>
           /\ d.risk_annotations = classify_crd_changes(e.changes)
           /\ d.ownership_conflict = check_crd_ownership(e.pair.old[1], release)
           /\ d.stored_version_warnings =
                 check_stored_version_safety(e.pair.old[1], e.pair.new[1])

PipelineReturnedReport == PipelineReturned /\ report.policy_result # None

\* C10: whatever `get crds` and the fetches answer, no RunError unwinds out of
\* run_crd_pipeline (the run stays on its path to the return), the report it
\* returns has policy_result set, and the entry of a changed CRD whose fetch
\* failed has empty schema_validation_errors and its changes, annotations,
\* ownership conflict and stored-version warnings.
C10_ClusterFailuresAreData ==
    /\ pc \in PipelineLabels
    /\ done <= Len(diff_results)
    /\ PipelineReturned => report.policy_result # None
    /\ \A k \in DOMAIN report.crds : ReportedDespiteFailedFetch(k)
    /\ \A k \in DOMAIN diff_results :
          (PipelineReturned /\ FetchFailedFor(diff_results[k])) => k \in DOMAIN report.crds

\* A run has returned the entry of a changed CRD, with an ownership conflict and
\* a stored-version warning, although the fetch of its custom resources failed.
C10_Witness ==
    /\ PipelineReturnedReport
    /\ \E k \in DOMAIN report.crds :
          /\ FetchFailedFor(diff_results[k])
          /\ report.crds[k].ownership_conflict # None
          /\ report.crds[k].stored_version_warnings # <<>>
          /\ report.crds[k].risk_annotations # <<>>

\* What step 8 renders for a CRD report: the analysis with its policy message.
Rendered(r) == Some([crd_report |-> r])

\* C11: a policy block is non-fatal.  When the command exits with 1 because the
\* policy blocks, the full output, with the CRD analysis and the policy
\* message, has been rendered in an earlier step and is left as it was; and
\* whatever the exit code, what is rendered is the same function of the report.
C11_BlockIsNonFatal ==
    [][(exit_code = None /\ exit_code' # None /\ ~PrimaryFailed') =>
          /\ output = Rendered(crd_report)
          /\ output' = output
          /\ crd_report' = crd_report
          /\ exit_code' = Some(1) =>
                /\ Blocked
                /\ output[1].crd_report[1].policy_result[1].message
                      = evaluate_policy(crd_report[1], crd_policy).message
                /\ output[1].crd_report[1].crds = crd_report[1].crds]_vars

\* A run with a change the policy blocks has exited with 1 after its output,
\* holding the blocked CRD and the policy message, was rendered.
C11_Witness ==
    /\ Exited
    /\ exit_code = Some(1)
    /\ ~PrimaryFailed
    /\ output # None
    /\ output[1].crd_report # None
    /\ output[1].crd_report[1].crds # <<>>
    /\ output[1].crd_report[1].policy_result[1].blocked

\* ------------------------------------------------------------------------
\* discover_cluster_crds on the two shapes of `kubectl get crds -o yaml`
\* ------------------------------------------------------------------------

MaxDocs == 3

\* The documents of an output: two CRDs and a resource that is no CRD.
DiscoverDocs == {InstalledWidgets(Unowned), Doodads, Deployment}

\* The CRD documents of an output.
DiscoverCrds == {d \in DiscoverDocs : IsCrd(d)}

DiscoverOutputs ==
    {RunError}
    \cup {ListOutput("CustomResourceDefinitionList", ds) : ds \in SeqsUpTo(DiscoverCrds, MaxDocs)}
    \cup {ListOutput("List", ds) : ds \in SeqsUpTo(DiscoverDocs, MaxDocs)}
    \cup {StreamOutput(ds) : ds \in SeqsUpTo(DiscoverDocs, MaxDocs)}

InitDiscover ==
    /\ args \in {[fn |-> "discover_cluster_crds", output |-> o] : o \in DiscoverOutputs}
    /\ result = NoResult
    /\ fpc = "input"
    /\ NoRun

CallDiscover ==
    /\ fpc = "input"
    /\ args.fn = "discover_cluster_crds"
    /\ result' = discover_cluster_crds(args.output)
    /\ fpc' = "returned"
    /\ UNCHANGED <<args, runVars>>

Discovered == fpc = "returned" /\ args.fn = "discover_cluster_crds"

SpecDiscover == InitDiscover /\ [][CallDiscover]_vars

\* C12: discover_cluster_crds accepts both shapes of the output: from a
\* CustomResourceDefinitionList wrapper it returns one CRD per mapping of items,
\* and from a multi-document stream holding N >= 1 CustomResourceDefinition
\* documents it returns those N CRDs in document order.
C12_BothShapes ==
    (Discovered /\ args.output.ok) =>
        /\ (args.output.shape = "list" /\ args.output.kind = "CustomResourceDefinitionList") =>
              /\ ~result.raised
              /\ Len(result.value) = Len(args.output.docs)
              /\ \A i \in DOMAIN result.value :
                    /\ IsCrd(result.value[i])
                    /\ result.value[i].name = args.output.docs[i].name
                    /\ result.value[i].body = args.output.docs[i].body
        /\ (args.output.shape = "stream" /\ SelectSeq(args.output.docs, IsCrd) # <<>>) =>
              /\ ~result.raised
              /\ result.value = SelectSeq(args.output.docs, IsCrd)

\* ------------------------------------------------------------------------
\* The chart's crds/ folder in run_crd_pipeline
\* ------------------------------------------------------------------------

\* The files of the chart's crds/ folder.
ChartFiles ==
    IF chart = None \/ chart[1].crds_dir = None THEN <<>> ELSE chart[1].crds_dir[1]

UnreadableChartFile == \E i \in DOMAIN ChartFiles : ~ChartFiles[i].readable

\* The names of the CRDs held by the readable files of the folder.
ReadableChartCrdNames ==
    {d.name : d \in UNION {{f.docs[k] : k \in {j \in DOMAIN f.docs : IsCrd(f.docs[j])}} :
                              f \in {g \in Range(ChartFiles) : g.readable}}}

\* C13: when a file of the chart's crds/ folder cannot be read or parsed, the
\* report the pipeline returns holds a warning recording the error, and the CRDs
\* of every other file of the folder are extracted (they are proposed) and
\* analysed (each has its entry in report.crds).
C13_UnreadableChartFile ==
    (PipelineReturned /\ UnreadableChartFile) =>
        /\ \E i \in DOMAIN report.warnings : report.warnings[i] # CouldNotRetrieve
        /\ \A name \in ReadableChartCrdNames :
              /\ \E i \in DOMAIN proposed_crds : proposed_crds[i].name = name
              /\ \E k \in DOMAIN report.crds : report.crds[k].name = name

\* What holds of such a run: the file is skipped and the CRDs of the other files
\* are proposed and analysed; no warning is recorded for the file.
C13_SkippedSilently ==
    (PipelineReturned /\ UnreadableChartFile) =>
        /\ \A i \in DOMAIN report.warnings : report.warnings[i] = CouldNotRetrieve
        /\ \A name \in ReadableChartCrdNames :
              /\ \E i \in DOMAIN proposed_crds : proposed_crds[i].name = name
              /\ \E k \in DOMAIN report.crds : report.crds[k].name = name

\* The CRDs of the rendered upgrade manifest.
RenderedCrds == SelectSeq(upgrade_resources, IsCrd)

Extracted == steps # <<>>

\* C14: the proposed set is the merge by name of the rendered CRDs and the
\* chart's crds/ CRDs: the rendered CRDs come first and are all kept, the CRDs
\* after them are the chart CRDs whose name no rendered CRD has, in the chart's
\* order, and each CRD name occurs in the proposed set at most once.
C14_MergeByName ==
    Extracted =>
        LET n == Len(RenderedCrds)
            rendered_names == {RenderedCrds[i].name : i \in DOMAIN RenderedCrds}
        IN  /\ Len(proposed_crds) >= n
            /\ SubSeq(proposed_crds, 1, n) = RenderedCrds
            /\ \A i \in DOMAIN proposed_crds :
                  i > n => (proposed_crds[i] \in Range(chart_crds)
                            /\ proposed_crds[i].name \notin rendered_names)
            /\ \A k \in DOMAIN chart_crds :
                  chart_crds[k].name \in {proposed_crds[i].name : i \in DOMAIN proposed_crds}
            /\ \A i, j \in DOMAIN proposed_crds :
                  proposed_crds[i].name = proposed_crds[j].name => i = j

\* What holds of the merge: the rendered CRDs first, then every chart CRD whose
\* name no rendered CRD has (a name that two chart files hold stays twice).
C14_RenderedThenChartOnly ==
    Extracted =>
        LET rendered_names == {RenderedCrds[i].name : i \in DOMAIN RenderedCrds}
        IN  proposed_crds =
               RenderedCrds \o SelectSeq(chart_crds, LAMBDA c : c.name \notin rendered_names)

\* The chart's folder holds gadgets.example.com in two files and nothing is
\* rendered: the proposed set holds the name twice.
C14_ChartDuplicate ==
    /\ Extracted
    /\ RenderedCrds = <<>>
    /\ Len(proposed_crds) >= 2
    /\ proposed_crds[1].name = proposed_crds[2].name

\* ------------------------------------------------------------------------
\* Ownership conflicts in the report
\* ------------------------------------------------------------------------

\* The installed copy of a CRD, as run_crd_pipeline discovered it.
InstalledCopy(name) ==
    installed_crds[CHOOSE i \in DOMAIN installed_crds : installed_crds[i].name = name]

IsInstalled(name) == \E i \in DOMAIN installed_crds : installed_crds[i].name = name

ProposedNotInstalled == SelectSeq(proposed_crds, LAMBDA r : ~IsInstalled(r.name))

\* C16: in the report the pipeline returns, new_crds holds, in proposed order,
\* one NewCrdInfo for each proposed CRD whose name is not installed and none for
\* an installed one, with the CRD's name, spec.group, spec.names.kind and the
\* names of spec.versions in order; and the names in new_crds are exactly the
\* names of the report.crds entries with status added.
C16_NewCrds ==
    PipelineReturned =>
        /\ Len(report.new_crds) = Len(ProposedNotInstalled)
        /\ \A i \in DOMAIN report.new_crds :
              LET info == report.new_crds[i]
                  crd == ProposedNotInstalled[i]
              IN  /\ info.name = crd.name
                  /\ info.group = crd.body.group
                  /\ info.kind = crd.body.kind
                  /\ Len(info.versions) = Len(crd.body.versions)
                  /\ \A v \in DOMAIN info.versions :
                        info.versions[v] = crd.body.versions[v].name
                  /\ ~IsInstalled(info.name)
        /\ {report.new_crds[i].name : i \in DOMAIN report.new_crds}
              = {report.crds[k].name :
                    k \in {j \in DOMAIN report.crds : report.crds[j].status = "added"}}

\* A returned report with a new CRD and, before it in the proposed set, a CRD
\* that is installed and so is not reported as new.
C16_Witness ==
    /\ PipelineReturned
    /\ Len(proposed_crds) = 2
    /\ IsInstalled(proposed_crds[1].name)
    /\ ~IsInstalled(proposed_crds[2].name)
    /\ Len(report.new_crds) = 1
    /\ report.new_crds[1].name = proposed_crds[2].name
    /\ Len(report.crds) = 2

\* ------------------------------------------------------------------------
\* pair_crds
\* ------------------------------------------------------------------------

MaxPairCrds == 2

\* CRDs to pair: three copies of widgets.example.com, each with another body,
\* and two more names.
PairUniverse == {InstalledWidgets(Unowned), SameWidgets, NewWidgets, Gadgets, Doodads}

InitPair ==
    /\ args \in {[fn |-> "pair_crds", installed |-> i, proposed |-> p] :
                    i \in SeqsUpTo(PairUniverse, MaxPairCrds),
                    p \in SeqsUpTo(PairUniverse, MaxPairCrds)}
    /\ result = NoResult
    /\ fpc = "input"
    /\ NoRun

CallPair ==
    /\ fpc = "input"
    /\ args.fn = "pair_crds"
    /\ result' = pair_crds(args.installed, args.proposed)
    /\ fpc' = "returned"
    /\ UNCHANGED <<args, runVars>>

Paired == fpc = "returned" /\ args.fn = "pair_crds"

SpecPair == InitPair /\ [][CallPair]_vars

\* The name a pair is about.
PairName(p) == IF p.new # None THEN p.new[1].name ELSE p.old[1].name

NameSet(resources) == {resources[i].name : i \in DOMAIN resources}

\* Where a name is first seen in a list of resources.
FirstIndex(resources, name) ==
    CHOOSE i \in DOMAIN resources :
        /\ resources[i].name = name
        /\ \A j \in DOMAIN resources : resources[j].name = name => i <= j

\* Name a comes before name b: installed names first, then proposed-only names,
\* each in first-seen order.
NameBefore(a, b) ==
    LET inst == NameSet(args.installed)
    IN  IF a \in inst /\ b \in inst
        THEN FirstIndex(args.installed, a) < FirstIndex(args.installed, b)
        ELSE IF a \notin inst /\ b \notin inst
        THEN FirstIndex(args.proposed, a) < FirstIndex(args.proposed, b)
        ELSE a \in inst

\* C17: pair_crds yields exactly one pair for each distinct name of installed or
\* proposed, installed names first and then proposed-only names, each in
\* first-seen order; in every pair old is null exactly when the status is added,
\* new is null exactly when it is removed, and the status unchanged implies that
\* the two bodies are equal.
C17_PairCrds ==
    Paired =>
        LET all == NameSet(args.installed) \cup NameSet(args.proposed)
        IN  /\ Len(result) = Cardinality(all)
            /\ \A name \in all : \E i \in DOMAIN result : PairName(result[i]) = name
            /\ \A i, j \in DOMAIN result :
                  i < j => NameBefore(PairName(result[i]), PairName(result[j]))
            /\ \A i \in DOMAIN result :
                  LET p == result[i]
                  IN  /\ (p.old = None) <=> (p.status = "added")
                      /\ (p.new = None) <=> (p.status = "removed")
                      /\ p.status \in {"added", "removed", "changed", "unchanged"}
                      /\ p.old # None => (p.old[1] \in Range(args.installed)
                                          /\ p.old[1].name = PairName(p))
                      /\ p.new # None => (p.new[1] \in Range(args.proposed)
                                          /\ p.new[1].name = PairName(p))
                      /\ p.status = "unchanged" => BodyEq(p.old[1].body, p.new[1].body)
                      /\ p.status = "changed" => ~BodyEq(p.old[1].body, p.new[1].body)

\* Two installed CRDs and two proposed ones, one name shared with a different
\* body: a changed pair, then a removed one, then an added one.
C17_Witness ==
    /\ Paired
    /\ Len(result) = 3
    /\ result[1].status = "changed"
    /\ result[2].status = "removed"
    /\ result[3].status = "added"
    /\ PairName(result[1]) = args.proposed[2].name

\* ------------------------------------------------------------------------
\* Live validation of a CRD without a storage version
\* ------------------------------------------------------------------------

NoStorageVersion(crd) == \A v \in DOMAIN crd.body.versions : ~crd.body.versions[v].storage

\* The changed CRDs of the run whose proposed copy has no storage version.
ChangedWithoutStorage ==
    {e.pair.new[1] : e \in {f \in Range(diff_results) :
                               /\ f.pair.status = "changed"
                               /\ f.pair.new # None
                               /\ NoStorageVersion(f.pair.new[1])}}

\* `kubectl get <plural>.<group>` was started for the CRD.
FetchedFor(crd) ==
    \E i \in DOMAIN calls :
        /\ calls[i].cmd = "get_cr"
        /\ calls[i].target = <<crd.body.plural, ".", crd.body.group>>

\* No schema validation error is recorded for the CRD, in the entry under
\* construction or in the report.
NoValidationErrorsFor(crd) ==
    /\ (detail # None /\ detail[1].name = crd.name) =>
          detail[1].schema_validation_errors = <<>>
    /\ \A k \in DOMAIN report.crds :
          report.crds[k].name = crd.name => report.crds[k].schema_validation_errors = <<>>

\* C18: for a changed CRD whose proposed spec.versions has no entry with
\* storage == true, live validation is skipped as its first step: no live
\* objects are fetched from the cluster for that CRD, and its
\* schema_validation_errors stays empty.
C18_SkippedBeforeFetch ==
    \A crd \in ChangedWithoutStorage : ~FetchedFor(crd) /\ NoValidationErrorsFor(crd)

\* What holds for such a CRD: its schema_validation_errors stays empty, whatever
\* the fetch answers.
C18_NoErrorsRecorded ==
    \A crd \in ChangedWithoutStorage : NoValidationErrorsFor(crd)

\* The pipeline has returned its report for a changed CRD without a storage
\* version, for which live objects were fetched and found.
C18_FetchedAnyway ==
    /\ PipelineReturned
    /\ \E crd \in ChangedWithoutStorage :
          /\ FetchedFor(crd)
          /\ \E i \in DOMAIN calls : calls[i].cmd = "get_cr" /\ calls[i].ok = Some(TRUE)
          /\ \E k \in DOMAIN report.crds : report.crds[k].name = crd.name

\* ------------------------------------------------------------------------
\* _validate_object: types and additionalProperties
\* ------------------------------------------------------------------------

MaxKeys == 2

SchemaTypes == {"string", "integer", "number", "boolean", "object", "array"}

\* The values of a node: null, a boolean, two integers, a string, a list and two
\* mappings.
NodeValues ==
    {JNull, JBool(TRUE), JInt(1), JInt(7), JStr("a"), JList(<<JStr("a")>>),
     JDict(<<>>), JDict(<<<<"color", JInt(1)>>>>)}

\* What a node's schema holds besides its type: nothing; an enum that only 7
\* is in; or a required key, a typed property and a closed set of keys.
SchemaExtras ==
    {<<>>,
     <<<<"enum", JList(<<JInt(7)>>)>>>>,
     <<<<"required", JList(<<JStr("size")>>)>>,
       <<"properties", JDict(<<<<"color", JDict(<<<<"type", JStr("string")>>>>)>>>>)>>,
       <<"additionalProperties", JBool(FALSE)>>>>,
     <<<<"items", JDict(<<<<"type", JStr("integer")>>>>)>>>>}

\* The schemas of a node: one of the six types or a type the validator does not
\* know, or no type.
NodeSchemas ==
    {JDict(<<<<"type", JStr(ty)>>>> \o extras) :
        ty \in SchemaTypes \cup {"quantity"}, extras \in SchemaExtras}
    \cup {JDict(extras) : extras \in SchemaExtras}

\* Where the node is: the validated value itself, the property x of it, or its
\* first item.
Nests == {"top", "property", "item"}

NodePath(nest) ==
    CASE nest = "top" -> <<>>
      [] nest = "property" -> <<"x">>
      [] nest = "item" -> <<"[", "0", "]">>

WrapValue(nest, value) ==
    CASE nest = "top" -> value
      [] nest = "property" -> JDict(<<<<"x", value>>>>)
      [] nest = "item" -> JList(<<value>>)

WrapSchema(nest, schema) ==
    CASE nest = "top" -> schema
      [] nest = "property" ->
            JDict(<<<<"type", JStr("object")>>, <<"properties", JDict(<<<<"x", schema>>>>)>>>>)
      [] nest = "item" -> JDict(<<<<"type", JStr("array")>>, <<"items", schema>>>>)

TypeInputs ==
    {[fn |-> "_validate_object", value |-> WrapValue(nest, v), schema |-> WrapSchema(nest, s),
      node |-> [path |-> NodePath(nest), value |-> v, schema |-> s]] :
        nest \in Nests, v \in NodeValues, s \in NodeSchemas}

\* The keys of an object: declared (size), undeclared (extra, color) and the four
\* envelope keys.
ObjectKeys == {"size", "extra", "color", "apiVersion", "kind", "metadata", "status"}

\* The key sequences without a repeated key.
KeySeqs == {ks \in SeqsUpTo(ObjectKeys, MaxKeys) :
               \A i, j \in DOMAIN ks : ks[i] = ks[j] => i = j}

\* An object with these keys, each holding a string or each an integer.
ObjectOf(ks, v) == JDict([i \in DOMAIN ks |-> <<ks[i], v>>])

\* additionalProperties: absent, false, true, or a schema.
Additionals ==
    {<<>>,
     <<<<"additionalProperties", JBool(FALSE)>>>>,
     <<<<"additionalProperties", JBool(TRUE)>>>>,
     <<<<"additionalProperties", JDict(<<<<"type", JStr("integer")>>>>)>>>>}

ObjectSchema(additional) ==
    JDict(<<<<"type", JStr("object")>>,
            <<"properties", JDict(<<<<"size", JDict(<<<<"type", JStr("integer")>>>>)>>>>)>>>>
          \o additional)

ObjectInputs ==
    {[fn |-> "_validate_object", value |-> WrapValue(nest, ObjectOf(ks, v)),
      schema |-> WrapSchema(nest, ObjectSchema(a)),
      node |-> [path |-> NodePath(nest), value |-> ObjectOf(ks, v), schema |-> ObjectSchema(a)]] :
        nest \in {"top", "property"}, ks \in KeySeqs, v \in {JStr("a"), JInt(1)},
        a \in Additionals}

InitValidate ==
    /\ args \in TypeInputs \cup ObjectInputs
    /\ result = NoResult
    /\ fpc = "input"
    /\ NoRun

CallValidate ==
    /\ fpc = "input"
    /\ args.fn = "_validate_object"
    /\ result' = _validate_object(args.value, args.schema, <<>>)
    /\ fpc' = "returned"
    /\ UNCHANGED <<args, runVars>>

Validated == fpc = "returned" /\ args.fn = "_validate_object"

SpecValidate == InitValidate /\ [][CallValidate]_vars

\* The type a schema declares, "" when it declares none.
DeclaredType(schema) == IF Has(schema, "type") THEN At(schema, "type").s ELSE ""

IsPrefix(p, q) == Len(p) <= Len(q) /\ SubSeq(q, 1, Len(p)) = p

\* The errors reported for the node and for what is below it.
SubtreeErrors == SelectSeq(result, LAMBDA e : IsPrefix(args.node.path, e.at))

\* The 'expected type' errors reported for the node itself.
TypeErrorsAtNode ==
    SelectSeq(result, LAMBDA e : e.at = args.node.path /\ e.reason.kind = "expected type")

\* The value is of the declared type / of another type.  A boolean under
\* `number` is left to neither.
OfType(value, ty) ==
    CASE ty = "string" -> value.t = "str"
      [] ty = "integer" -> value.t = "int"
      [] ty = "number" -> value.t = "int"
      [] ty = "boolean" -> value.t = "bool"
      [] ty = "object" -> value.t = "dict"
      [] ty = "array" -> value.t = "list"

TypeMismatch(value, ty) ==
    /\ value.t # "null"
    /\ ~OfType(value, ty)
    /\ ~(value.t = "bool" /\ ty = "number")

\* C19: for a node whose schema declares one of the six types, a null value
\* gives no type error whatever the type; a boolean does not satisfy integer;
\* and a value of another type than the declared one gives exactly one
\* 'expected type' error for the node, naming the declared type and the type of
\* the value, and no other error from the node or from below it; a value of the
\* declared type gives no type error for the node.
C19_TypeCheck ==
    (Validated /\ DeclaredType(args.node.schema) \in SchemaTypes) =>
        LET ty == DeclaredType(args.node.schema)
            value == args.node.value
            type_error == SchemaError(args.node.path,
                                      [kind |-> "expected type", expected |-> ty,
                                       got |-> TypeName(value)])
        IN  /\ value = JNull => TypeErrorsAtNode = <<>>
            /\ (value.t = "bool" /\ ty = "integer") => SubtreeErrors = <<type_error>>
            /\ TypeMismatch(value, ty) => SubtreeErrors = <<type_error>>
            /\ OfType(value, ty) => TypeErrorsAtNode = <<>>

\* A boolean at a property declared integer with an enum that only 7 is in: one
\* error, the type error, and none for the enum.
C19_Witness ==
    /\ Validated
    /\ args.node.path = <<"x">>
    /\ args.node.value = JBool(TRUE)
    /\ DeclaredType(args.node.schema) = "integer"
    /\ Has(args.node.schema, "enum")
    /\ Len(result) = 1
    /\ result[1].reason.kind = "expected type"

EnvelopeKeys == {"apiVersion", "kind", "metadata", "status"}

\* The keys of the node's value, in order, and those its schema declares.
KeysOf(value) == [i \in DOMAIN value.pairs |-> value.pairs[i][1]]
DeclaredKeys(schema) ==
    IF Has(schema, "properties")
    THEN {At(schema, "properties").pairs[i][1] : i \in DOMAIN At(schema, "properties").pairs}
    ELSE {}

\* The 'unknown field' errors reported for the node, and the errors reported for
\* the value of one of its keys and below.
UnknownFieldErrors ==
    SelectSeq(result, LAMBDA e : e.at = args.node.path /\ e.reason.kind = "unknown field")
ErrorsBelow(key) ==
    SelectSeq(result, LAMBDA e : IsPrefix(ChildPath(args.node.path, key), e.at))

\* C20: for an object validated against a schema of type object: with
\* additionalProperties false there is one 'unknown field' error for each key
\* that is neither declared in properties nor one of apiVersion, kind, metadata
\* and status, in the order of the keys, and none for those four; with
\* additionalProperties a schema, the value of every undeclared key is validated
\* against that schema; with additionalProperties absent (or true), an
\* undeclared key produces no error.
C20_AdditionalProperties ==
    (Validated /\ DeclaredType(args.node.schema) = "object" /\ args.node.value.t = "dict") =>
        LET schema == args.node.schema
            value == args.node.value
            additional == Get(schema, "additionalProperties", JNull)
            undeclared == SelectSeq(KeysOf(value), LAMBDA k : k \notin DeclaredKeys(schema))
            unknown == SelectSeq(undeclared, LAMBDA k : k \notin EnvelopeKeys)
        IN  /\ additional = JBool(FALSE) =>
                  /\ Len(UnknownFieldErrors) = Len(unknown)
                  /\ \A i \in DOMAIN unknown :
                        UnknownFieldErrors[i]
                           = SchemaError(args.node.path,
                                         [kind |-> "unknown field", field |-> unknown[i]])
                  /\ \A i \in DOMAIN UnknownFieldErrors :
                        UnknownFieldErrors[i].reason.field \notin EnvelopeKeys
                  /\ \A i \in DOMAIN undeclared : ErrorsBelow(undeclared[i]) = <<>>
            /\ additional = JDict(<<<<"type", JStr("integer")>>>>) =>
                  /\ UnknownFieldErrors = <<>>
                  /\ \A i \in DOMAIN undeclared :
                        ErrorsBelow(undeclared[i])
                           = IF At(value, undeclared[i]).t \in {"int", "null"} THEN <<>>
                             ELSE <<SchemaError(ChildPath(args.node.path, undeclared[i]),
                                                [kind |-> "expected type",
                                                 expected |-> "integer",
                                                 got |-> TypeName(At(value, undeclared[i]))])>>
            /\ additional \in {JNull, JBool(TRUE)} =>
                  /\ UnknownFieldErrors = <<>>
                  /\ \A i \in DOMAIN undeclared : ErrorsBelow(undeclared[i]) = <<>>

\* An object with an envelope key and an undeclared key under
\* additionalProperties false: one error, for the undeclared key.
C20_Witness ==
    /\ Validated
    /\ DeclaredType(args.node.schema) = "object"
    /\ Get(args.node.schema, "additionalProperties", JNull) = JBool(FALSE)
    /\ args.node.value.t = "dict"
    /\ KeysOf(args.node.value) = <<"metadata", "extra">>
    /\ Len(UnknownFieldErrors) = 1
    /\ UnknownFieldErrors[1].reason.field = "extra"

\* ------------------------------------------------------------------------
\* validate_crs_against_schema: the form of the errors
\* ------------------------------------------------------------------------

MaxCrs == 2

\* The metadata of a live object: namespaced and named, cluster-scoped (no
\* namespace, or an empty one), without a name, or empty.
Metadatas ==
    {Dict2("namespace", JStr("default"), "name", JStr("my-widget")),
     Dict1("name", JStr("my-widget")),
     Dict2("namespace", JStr(""), "name", JStr("my-widget")),
     Dict1("namespace", JStr("default")),
     JDict(<<>>)}

\* Live widgets: valid, without the required color, and with a size of the
\* wrong type too; and a live object that has no metadata at all.
LiveCrs ==
    {Dict2("metadata", m, "spec", sp) :
        m \in Metadatas,
        sp \in {Dict2("size", JInt(1), "color", JStr("red")),
                Dict1("size", JInt(1)),
                Dict1("size", JStr("big"))}}
    \cup {Dict1("spec", Dict1("size", JInt(1)))}

InitCrs ==
    /\ args \in {[fn |-> "validate_crs_against_schema", crs |-> cs, schema |-> WidgetSchemaV2] :
                    cs \in SeqsUpTo(LiveCrs, MaxCrs)}
    /\ result = NoResult
    /\ fpc = "input"
    /\ NoRun

CallCrs ==
    /\ fpc = "input"
    /\ args.fn = "validate_crs_against_schema"
    /\ result' = validate_crs_against_schema(args.crs, args.schema)
    /\ fpc' = "returned"
    /\ UNCHANGED <<args, runVars>>

CrsValidated == fpc = "returned" /\ args.fn = "validate_crs_against_schema"

SpecCrs == InitCrs /\ [][CallCrs]_vars

\* metadata.namespace and metadata.name of a live object ("" and "<unknown>"
\* when absent).
NamespaceOf(cr) == Get(Get(cr, "metadata", JDict(<<>>)), "namespace", JStr("")).s
NameOf(cr) == Get(Get(cr, "metadata", JDict(<<>>)), "name", JStr("<unknown>")).s

\* The errors of the input's objects, in order, each with the prefix that
\* prefix_of gives its object.
ErrorsPrefixedBy(prefix_of(_)) ==
    Concat([c \in DOMAIN args.crs |->
        LET cr_errors == _validate_object(args.crs[c], args.schema, <<>>)
        IN  [e \in DOMAIN cr_errors |->
                [prefix |-> prefix_of(args.crs[c]), at |-> cr_errors[e].at,
                 reason |-> cr_errors[e].reason]]])

NamespacedPrefix(cr) == <<NamespaceOf(cr), "/", NameOf(cr)>>

ScopedPrefix(cr) ==
    IF NamespaceOf(cr) # "" THEN <<NamespaceOf(cr), "/", NameOf(cr)>> ELSE <<NameOf(cr)>>

\* The error of the example: default/my-widget lacks the required color.
MissingColor ==
    [prefix |-> <<"default", "/", "my-widget">>, at |-> <<"spec">>,
     reason |-> [kind |-> "missing required field", field |-> "color"]]

IsDefaultMyWidget(cr) == NamespaceOf(cr) = "default" /\ NameOf(cr) = "my-widget"

LacksColor(cr) == Has(cr, "spec") /\ At(cr, "spec").t = "dict" /\ ~Has(At(cr, "spec"), "color")

\* C21 as stated: every returned string has the form
\* "<namespace>/<name>: At '<path>': <reason>" for the object it concerns,
\* whatever the object's metadata, and default/my-widget lacking the required
\* color yields "default/my-widget: At 'spec': missing required field 'color'".
C21_AlwaysNamespaced ==
    CrsValidated =>
        /\ result = ErrorsPrefixedBy(NamespacedPrefix)
        /\ \A c \in DOMAIN args.crs :
              (IsDefaultMyWidget(args.crs[c]) /\ LacksColor(args.crs[c])) =>
                  MissingColor \in Range(result)

\* C21, amended: every returned string is "<prefix>: At '<path>': <reason>" for
\* the object it concerns, where the prefix is "<namespace>/<name>" when the
\* object has a non-empty metadata.namespace and "<name>" alone otherwise, the
\* name being "<unknown>" when metadata.name is absent; default/my-widget lacking
\* the required color yields the string of the example.
C21_ScopedPrefix ==
    CrsValidated =>
        /\ result = ErrorsPrefixedBy(ScopedPrefix)
        /\ \A c \in DOMAIN args.crs :
              (IsDefaultMyWidget(args.crs[c]) /\ LacksColor(args.crs[c])) =>
                  MissingColor \in Range(result)

\* A cluster-scoped my-widget and default/my-widget, both lacking the color:
\* the first error has the name alone as its prefix, the second is the example's.
C21_Witness ==
    /\ CrsValidated
    /\ Len(args.crs) = 2
    /\ Len(result) = 2
    /\ result[1].prefix = <<"my-widget">>
    /\ result[2] = MissingColor

\* ------------------------------------------------------------------------
\* max_risk, has_dangers and has_issues
\* ------------------------------------------------------------------------

InitRisk ==
    /\ args \in {[fn |-> "max_risk", report |-> r] : r \in PolicyReports}
    /\ result = NoResult
    /\ fpc = "input"
    /\ NoRun

\* The three properties are read: max_risk of every entry, has_dangers and
\* has_issues of the report.
CallRisk ==
    /\ fpc = "input"
    /\ args.fn = "max_risk"
    /\ result' = [max_risk |-> [i \in DOMAIN args.report.crds |-> max_risk(args.report.crds[i])],
                  has_dangers |-> has_dangers(args.report),
                  has_issues |-> has_issues(args.report)]
    /\ fpc' = "returned"
    /\ UNCHANGED <<args, runVars>>

RiskRead == fpc = "returned" /\ args.fn = "max_risk"

SpecRisk == InitRisk /\ [][CallRisk]_vars

\* The levels of the annotations of a report entry.
LevelsOf(crd) == {crd.risk_annotations[i].level : i \in DOMAIN crd.risk_annotations}

\* C22: max_risk of a CrdChangeDetail is the greatest level of its annotations
\* in the order SAFE < WARNING < DANGER, and SAFE when it has none; has_dangers
\* holds exactly when some entry of report.crds carries a DANGER annotation, and
\* has_issues exactly when some entry carries a WARNING or DANGER annotation.
C22_MaxRisk ==
    RiskRead =>
        /\ \A i \in DOMAIN args.report.crds :
              LET levels == LevelsOf(args.report.crds[i])
              IN  result.max_risk[i] =
                     IF DANGER \in levels THEN DANGER
                     ELSE IF WARNING \in levels THEN WARNING
                     ELSE SAFE
        /\ result.has_dangers <=>
              \E i \in DOMAIN args.report.crds : DANGER \in LevelsOf(args.report.crds[i])
        /\ result.has_issues <=>
              \E i \in DOMAIN args.report.crds :
                  LevelsOf(args.report.crds[i]) \cap {WARNING, DANGER} # {}

\* An entry annotated DANGER then SAFE next to an entry annotated WARNING: the
\* first is at DANGER, the second at WARNING, and the report has dangers.
C22_Witness ==
    /\ RiskRead
    /\ Len(args.report.crds) = 2
    /\ Len(args.report.crds[1].risk_annotations) = 2
    /\ args.report.crds[1].risk_annotations[1].level = DANGER
    /\ args.report.crds[1].risk_annotations[2].level = SAFE
    /\ result.max_risk = <<DANGER, WARNING>>
    /\ result.has_dangers
    /\ result.has_issues

\* ------------------------------------------------------------------------
\* _apply_server_side
\* ------------------------------------------------------------------------

\* The server-side dry-runs that have returned, in the order they were started.
DryRuns ==
    SelectSeq(calls, LAMBDA c : c.cmd = "server_side_dry_run" /\ c.ok # None)

InApplyServerSide == pc \in {"apply_server_side", "server_side_dry_run"}

\* The results so far are, resource by resource and in input order, what the
\* dry-runs gave: the first resource of the output, or the input resource when
\* the dry-run failed or its output holds no resource.
MergedInInputOrder ==
    /\ Len(results) = Len(DryRuns)
    /\ Len(results) <= Len(upgrade_resources)
    /\ \A i \in DOMAIN results :
          results[i] = IF DryRuns[i].out.ok /\ DryRuns[i].out.docs # <<>>
                       THEN DryRuns[i].out.docs[1]
                       ELSE upgrade_resources[i]
    /\ exit_code = None

\* C23: with --server-side, _apply_server_side returns a list of the length and
\* order of its input: element i is the first resource of the server-side
\* dry-run of input resource i, or input resource i itself when that dry-run
\* failed with a RunError or gave no resource; a failure neither aborts the run
\* (the loop goes on to the next resource and the function returns) nor touches
\* another resource's result.
C23_ServerSideFallback ==
    [][/\ InApplyServerSide' => MergedInInputOrder'
       /\ (InApplyServerSide /\ InApplyServerSide') =>
             /\ upgrade_resources' = upgrade_resources
             /\ SubSeq(results', 1, Len(results)) = results
       /\ (InApplyServerSide /\ ~InApplyServerSide') =>
             /\ pc' = "pair"
             /\ Len(results) = Len(upgrade_resources)
             /\ upgrade_resources' = results
             /\ exit_code' = None]_vars

\* Two resources, the dry-run of the first failed and that of the second gave
\* the resource as the server sees it: the function returned the first as
\* rendered and the second as applied.
C23_Witness ==
    /\ pc = "pair"
    /\ server_side
    /\ Len(DryRuns) = 2
    /\ ~DryRuns[1].out.ok
    /\ DryRuns[2].out.ok /\ DryRuns[2].out.docs # <<>>
    /\ upgrade_resources = <<Deployment, DryRuns[2].out.docs[1]>>
    /\ upgrade_resources[2] # NewWidgets

\* ------------------------------------------------------------------------
\* evaluate_policy on two reports
\* ------------------------------------------------------------------------

\* Annotations of a report entry: none, a WARNING, a DANGER, or both.
EntryAnnotations ==
    LET safe == _classify_single(FieldChange(Dot(<<W("metadata"), W("labels"), W("app")>>),
                                             "value_changed"))
        warning == _classify_single(FieldChange(Dot(<<W("spec"), W("group")>>), "value_changed"))
        danger == _classify_single(FieldChange(Dot(<<W("spec"), W("scope")>>), "value_changed"))
    IN  [none |-> <<>>, warning |-> <<warning>>, danger |-> <<danger>>,
         both |-> <<warning, danger>>, safe |-> <<safe>>]

BaseEntries ==
    {[CrdChangeDetail(name, "changed", <<>>) EXCEPT !.risk_annotations = EntryAnnotations[a]] :
        name \in {CrdNames[1], CrdNames[2]}, a \in {"none", "warning", "danger", "both"}}

BaseReports ==
    {[CrdReport EXCEPT !.crds = entries] : entries \in SeqsUpTo(BaseEntries, MaxReportCrds)}

\* What a second report may differ in.
VariedFields ==
    {"stored_version_warnings", "schema_validation_errors", "ownership_conflict",
     "new_crds", "warnings", "risk_annotations", "status"}

Variations == {{}} \cup {{f} : f \in VariedFields} \cup {VariedFields}

\* The entry with the fields of the variation changed; a SAFE annotation is put
\* first, which leaves the greatest level as it is.
VaryEntry(entry, variation) ==
    [entry EXCEPT
        !.stored_version_warnings =
            IF "stored_version_warnings" \in variation THEN <<StoredVersionWarning("v1")>> ELSE @,
        !.schema_validation_errors =
            IF "schema_validation_errors" \in variation THEN <<MissingColor>> ELSE @,
        !.ownership_conflict =
            IF "ownership_conflict" \in variation
            THEN Some([conflict |-> "not managed by Helm", crd |-> entry.name,
                       manager |-> "argocd", app |-> ""])
            ELSE @,
        !.risk_annotations =
            IF "risk_annotations" \in variation THEN EntryAnnotations.safe \o @ ELSE @,
        !.status = IF "status" \in variation THEN "added" ELSE @]

VaryReport(base, variation) ==
    [crds |-> [i \in DOMAIN base.crds |-> VaryEntry(base.crds[i], variation)],
     new_crds |-> IF "new_crds" \in variation
                  THEN <<NewCrdInfo(CrdNames[3], "example.com", "Gizmo", <<"v1">>)>>
                  ELSE base.new_crds,
     policy_result |-> base.policy_result,
     warnings |-> IF "warnings" \in variation THEN <<CouldNotRetrieve>> ELSE base.warnings]

InitPolicyPair ==
    /\ args \in {[fn |-> "evaluate_policy twice", report |-> r, other |-> VaryReport(r, v),
                  mode |-> m] :
                    r \in BaseReports, v \in Variations, m \in PolicyModes}
    /\ result = NoResult
    /\ fpc = "input"
    /\ NoRun

CallPolicyPair ==
    /\ fpc = "input"
    /\ args.fn = "evaluate_policy twice"
    /\ result' = <<evaluate_policy(args.report, args.mode),
                   evaluate_policy(args.other, args.mode)>>
    /\ fpc' = "returned"
    /\ UNCHANGED <<args, runVars>>

PolicyPairEvaluated == fpc = "returned" /\ args.fn = "evaluate_policy twice"

SpecPolicyPair == InitPolicyPair /\ [][CallPolicyPair]_vars

\* The greatest level among the annotations of an entry, SAFE when none.
GreatestLevel(crd) ==
    IF DANGER \in LevelsOf(crd) THEN DANGER
    ELSE IF WARNING \in LevelsOf(crd) THEN WARNING ELSE SAFE

\* The sequence of (name, max_risk) of the entries of a report.
NamesAndRisks(r) == [i \in DOMAIN r.crds |-> <<r.crds[i].name, GreatestLevel(r.crds[i])>>]

\* C24: evaluate_policy is a function of the mode and of the sequence of
\* (name, max_risk) of report.crds: two reports with the same sequence get the
\* same PolicyResult under the same mode, whatever their
\* stored_version_warnings, schema_validation_errors, ownership_conflict,
\* new_crds and warnings (and whatever the status and the lesser annotations of
\* their entries).
C24_PolicyReadsNamesAndRisks ==
    PolicyPairEvaluated =>
        (NamesAndRisks(args.report) = NamesAndRisks(args.other) => result[1] = result[2])

\* Under fail, a report with a DANGER entry and the same report with schema
\* validation errors, an ownership conflict, stored-version warnings, new CRDs
\* and a warning added: both are blocked, with the same message.
C24_Witness ==
    /\ PolicyPairEvaluated
    /\ args.mode = "fail"
    /\ args.report # args.other
    /\ Len(args.other.crds) = 2
    /\ args.other.crds[1].schema_validation_errors # <<>>
    /\ args.other.crds[1].ownership_conflict # None
    /\ args.other.new_crds # <<>>
    /\ args.other.warnings # <<>>
    /\ NamesAndRisks(args.report) = NamesAndRisks(args.other)
    /\ result[1].blocked
    /\ result[1] = result[2]

\* ------------------------------------------------------------------------
\* The rule crd_optional_property_added
\* ------------------------------------------------------------------------

\* Segment k of the path names a property under a nested properties mapping:
\* ...properties.X.properties.Y, with Y at position k.
NestedPropertyAt(segments, k) ==
    /\ k >= 4
    /\ k <= Len(segments)
    /\ segments[k - 1] = W("properties")
    /\ segments[k - 3] = W("properties")

\* The path ends at such a property name, with nothing after Y.
EndsAtNestedProperty(path) ==
    \E n \in SchemaNodes, t \in SchemaTails :
        /\ path = Dot(SchemaRoot \o n \o t)
        /\ NestedPropertyAt(n \o t, Len(n \o t))

\* The path lies below such a property: ...properties.X.properties.Y.<more>.
BelowNestedProperty(path) ==
    \E n \in SchemaNodes, t \in SchemaTails :
        /\ path = Dot(SchemaRoot \o n \o t)
        /\ \E k \in 1..(Len(n \o t) - 1) : NestedPropertyAt(n \o t, k)

\* C25: the rule crd_optional_property_added is assigned only to item_added
\* changes whose path ends at a property name under a nested properties
\* mapping; an item_added change deeper inside an existing nested property (an
\* added pattern, minimum, maximum or enum entry below it) does not get the rule.
C25_OnlyAddedProperties ==
    Classified =>
        \A i \in DOMAIN result :
            result[i].rule = "crd_optional_property_added" =>
                /\ args.changes[i].change_type = "item_added"
                /\ EndsAtNestedProperty(args.changes[i].path)

\* What holds of the rule: it is assigned only to item_added changes at or
\* below a nested property, on a path without `.required`.
C25_AtOrBelowNestedProperty ==
    Classified =>
        \A i \in DOMAIN result :
            result[i].rule = "crd_optional_property_added" =>
                /\ args.changes[i].change_type = "item_added"
                /\ \/ EndsAtNestedProperty(args.changes[i].path)
                   \/ BelowNestedProperty(args.changes[i].path)

\* An added pattern below an existing nested property is classified by the rule,
\* as SAFE.
C25_AddedPatternIsSafe ==
    /\ Classified
    /\ Len(args.changes) = 1
    /\ args.changes[1] = FieldChange(Dot(SchemaRoot \o <<W("properties"), W("spec"),
                                                         W("properties"), W("color"),
                                                         W("pattern")>>), "item_added")
    /\ result[1].rule = "crd_optional_property_added"
    /\ result[1].level = SAFE

\* ------------------------------------------------------------------------
\* The warning of the discovery
\* ------------------------------------------------------------------------

\* discover_cluster_crds has returned to the pipeline.
DiscoveryDone == \E i \in DOMAIN steps : steps[i] = Step("discover", "")

\* `kubectl get crds` succeeded and answered with this output.
DiscoveryAnswered(out) ==
    \E i \in DOMAIN calls :
        /\ calls[i].cmd = "get_crds"
        /\ calls[i].ok = Some(TRUE)
        /\ calls[i].out = out

\* C26: report.warnings has the "could not retrieve installed CRDs" warning if
\* and only if the discovery of the installed CRDs failed; when `get crds`
\* succeeds, even with zero installed CRDs, the pipeline adds no warning.
C26_WarningIffDiscoveryFailed ==
    DiscoveryDone =>
        (CouldNotRetrieve \in Range(report.warnings) <=> DiscoveryFailed)

\* What holds of the warning: it is there if and only if the discovery gave no
\* installed CRD, whatever the reason.
C26_WarningIffNoneInstalled ==
    DiscoveryDone =>
        (CouldNotRetrieve \in Range(report.warnings) <=> installed_crds = <<>>)

\* `get crds` succeeded with a list of zero CRDs, and the report the pipeline
\* returned has the warning.
C26_WarnedOnEmptyCluster ==
    /\ PipelineReturned
    /\ DiscoveryAnswered(ListOutput("CustomResourceDefinitionList", <<>>))
    /\ ~DiscoveryFailed
    /\ CouldNotRetrieve \in Range(report.warnings)

\* ------------------------------------------------------------------------
\* The entries of report.crds
\* ------------------------------------------------------------------------

\* The pair (its position in pairs) an entry of report.crds was made from.
PairOf(entry) ==
    CHOOSE i \in DOMAIN pairs :
        PairName(pairs[i]) = entry.name /\ pairs[i].status = entry.status

\* An entry of status changed: at least one change, one annotation per change.
ChangedEntryOk(entry) ==
    /\ Len(entry.changes) >= 1
    /\ Len(entry.risk_annotations) = Len(entry.changes)
    /\ \A i \in DOMAIN entry.changes :
          entry.risk_annotations[i].path = entry.changes[i].path

\* An entry of status added: nothing but its name and status.
AddedEntryOk(entry) ==
    /\ entry.changes = <<>>
    /\ entry.risk_annotations = <<>>
    /\ entry.ownership_conflict = None
    /\ entry.schema_validation_errors = <<>>
    /\ entry.stored_version_warnings = <<>>

\* C27: each entry of report.crds has status added or changed, never removed or
\* unchanged; a changed entry has at least one FieldChange and as many risk
\* annotations as changes; an added entry has no changes, annotations, ownership
\* conflict, schema validation errors or stored-version warnings; and the
\* entries are in the order the pairs were produced.
C27_ReportEntries ==
    /\ \A k \in DOMAIN report.crds :
          /\ report.crds[k].status \in {"added", "changed"}
          /\ report.crds[k].status = "changed" => ChangedEntryOk(report.crds[k])
          /\ report.crds[k].status = "added" => AddedEntryOk(report.crds[k])
          /\ \E i \in DOMAIN pairs :
                PairName(pairs[i]) = report.crds[k].name /\ pairs[i].status = report.crds[k].status
    /\ \A k, l \in DOMAIN report.crds :
          k < l => PairOf(report.crds[k]) < PairOf(report.crds[l])

\* A report is returned with a changed entry of two changes or more followed by
\* an added one, for a CRD that was proposed before the changed one.
C27_Witness ==
    /\ PipelineReturned
    /\ Len(report.crds) = 2
    /\ report.crds[1].status = "changed"
    /\ report.crds[2].status = "added"
    /\ Len(report.crds[1].changes) >= 2
    /\ \E i, j \in DOMAIN proposed_crds :
          /\ i < j
          /\ proposed_crds[i].name = report.crds[2].name
          /\ proposed_crds[j].name = report.crds[1].name

\* ------------------------------------------------------------------------
\* The risk marker of a field change in terminal output
\* ------------------------------------------------------------------------

MaxAnnotations == 2

\* The paths of two fields of a Deployment.
MarkerPaths == {<<"spec", ".", "replicas">>, <<"spec", ".", "selector">>}

MarkerAnnotations ==
    {_annotation(level, "rule", path) : level \in RiskLevel, path \in MarkerPaths}

InitMarker ==
    /\ args \in {[fn |-> "_render_field_change", fc |-> FieldChange(path, t),
                  risk_annotations |-> annotations] :
                     path \in MarkerPaths, t \in ChangeTypes,
                     annotations \in SeqsUpTo(MarkerAnnotations, MaxAnnotations)}
    /\ result = NoResult
    /\ fpc = "input"
    /\ NoRun

\* _render_resource renders a field of a changed resource, and the badge of the
\* resource.
CallRenderFieldChange ==
    /\ fpc = "input"
    /\ args.fn = "_render_field_change"
    /\ result' = [line |-> _render_field_change(args.fc, args.risk_annotations),
                  badge |-> _max_risk(args.risk_annotations)]
    /\ fpc' = "returned"
    /\ UNCHANGED <<args, runVars>>

FieldRendered == fpc = "returned" /\ args.fn = "_render_field_change"

SpecMarker == InitMarker /\ [][CallRenderFieldChange]_vars

\* The levels of the annotations attached to the path of the field.
FieldLevels ==
    {args.risk_annotations[i].level :
        i \in {j \in DOMAIN args.risk_annotations :
                  args.risk_annotations[j].path = args.fc.path}}

\* C28: the risk marker of a field change is that of the highest level, in the
\* order SAFE < WARNING < DANGER, among the annotations attached to the path of
\* the field: " !!" whenever one of them is DANGER, " !" when the highest is
\* WARNING, and none when all are SAFE or there are none.
C28_MarkerOfHighestLevel ==
    FieldRendered =>
        result.line[1].risk_marker =
            IF DANGER \in FieldLevels THEN " !!"
            ELSE IF WARNING \in FieldLevels THEN " !"
            ELSE ""

\* What holds of the marker: it is that of the level whose value is the greatest
\* str, "danger" < "safe" < "warning": " !" whenever one of the annotations of
\* the path is WARNING, " !!" when all of them are DANGER, none otherwise.
C28_MarkerOfGreatestValue ==
    FieldRendered =>
        result.line[1].risk_marker =
            IF WARNING \in FieldLevels THEN " !"
            ELSE IF FieldLevels = {DANGER} THEN " !!"
            ELSE ""

\* The badge of the resource, for its part, is the highest level in the order
\* SAFE < WARNING < DANGER.
C28_BadgeOfHighestLevel ==
    FieldRendered =>
        LET levels == {args.risk_annotations[i].level : i \in DOMAIN args.risk_annotations}
        IN  result.badge = IF DANGER \in levels THEN Some(DANGER)
                           ELSE IF WARNING \in levels THEN Some(WARNING)
                           ELSE IF SAFE \in levels THEN Some(SAFE)
                           ELSE None

\* A field whose path carries a DANGER and a WARNING annotation is rendered with
\* the marker of WARNING, under a DANGER badge.
C28_DangerMarkedAsWarning ==
    /\ FieldRendered
    /\ FieldLevels = {DANGER, WARNING}
    /\ result.line[1].risk_marker = " !"
    /\ result.badge = Some(DANGER)
====
